---- MODULE Spec2Model ----
(***************************************************************************)
(* Saskatchewan railway pipeline: the network builder                      *)
(* (scripts/build_railway_network.py) and the NRWN merger                  *)
(* (scripts/merge_nrwn_data.py) as state machines.                         *)
(*                                                                         *)
(* The two scripts are separate programs that communicate through the      *)
(* persisted network file, so a behaviour starts either in the builder     *)
(* (pc = "pass1") or in the merger (pc = "assemble").  The settlement      *)
(* snapper (scripts/snap_settlements_to_network.py) and the router         *)
(* (scripts/calculate_railway_distances.py) read the finished network and  *)
(* are the specification RouteSpec; PathSpec applies the two shortest      *)
(* path searches (find_path of scripts/verify_railway_routes.py and the    *)
(* router's calculate_railway_distance) to every pair of nodes of a graph. *)
(* After a merge the merger may run once more on its own files, and the    *)
(* connectivity fix (scripts/fix_ogema_connectivity.py) may follow.        *)
(* FloatSpec is the snapper in a small floating-point format, VerifySpec   *)
(* the route verifier (scripts/verify_railway_routes.py) and OrderSpec the *)
(* connection generator (scripts/generate_connections.py) beside the       *)
(* snapper and the router.                                                 *)
(*                                                                         *)
(* Units.  Builder coordinates are projected metres (integers).  Merger    *)
(* coordinates are longitude/latitude in microdegrees (1e-6 degree), and   *)
(* great-circle distances are carried in centimetres so that the one       *)
(* decimal rounding of length_m (10 cm) is visible.  Square roots are      *)
(* integer square roots; the builder's inputs are chosen so that every     *)
(* leg of every polyline has an integer length.                            *)
(* Node ids "n<k>" are represented by the number k.                        *)
(***************************************************************************)
EXTENDS Integers, Sequences, FiniteSets

VARIABLES
    pc,            \* position of the running script
    shapes,        \* builder input: the shapefile records, in file order
    junctions,     \* builder: junction points found by pass 1
    shape_i,       \* builder: index of the next shape of pass 2
    segments,      \* builder: segments of the current shape still to insert
    cur_code,      \* builder: builder_code of the current shape
    g_nodes,       \* builder: graph nodes in insertion order
    node_index,    \* builder: number used for the next node id
    g_edges,       \* builder: graph edges in insertion order
    resolved,      \* history: non-self-loop segments with the pair they resolved to
    snap_log,      \* history: endpoint resolutions of the last inserted segment
    loops_dropped, \* history: number of self-loop segments / chains discarded
    network,       \* merger: railway_network.json (nodes and edges)
    tracks_data,   \* merger: railway_tracks.json (tracks)
    nrwn_tracks,   \* merger: the segments parsed from the GML file, in file order
    merged_tracks, \* merger: the merged chains to integrate, in order
    track_i,       \* merger: index of the next chain
    next_node_num, \* merger: number used for the next new node id
    coord_to_node, \* merger: rounded coordinate key -> node id
    new_nodes,     \* merger: nodes allocated by this merge
    new_edges,     \* merger: edges added by this merge
    new_tracks,    \* merger: track geometries added by this merge
    main_component,      \* connector: node ids of the main component
    floating_components, \* connector: components still to attach
    virtual_edges, \* connector: virtual edges added so far
    virtual_tracks,\* connector: geometries of the virtual edges
    net0,          \* history: the network as loaded, before the merge
    res_log,       \* history: endpoint resolutions of the last chain
    dups_dropped,  \* history: number of chains dropped as duplicate edges
    graph,         \* snapper / router: the network file they read
    settlements,   \* snapper: settlements.json, in file order
    settle_i,      \* snapper: index of the next settlement
    mappings,      \* snapper: the snap records; the mapping file once written
    connections,   \* router: the entries of the connections table, in order
    conn_i,        \* router: index of the next entry
    processed_pairs, \* router: pair keys already seen
    pair_distances,  \* router: pair key -> railway distance or None
    stats,         \* router: the counters of the run
    written,       \* router: entry -> railway_distance_km written to the file
    path_query,    \* the last find_path call and the path it returned
    rail_query,    \* the last calculate_railway_distance call and its result
    route_tracks,  \* verifier: railway_tracks.json as the verifier reads it
    results,       \* verifier: one record per pair verified, in order
    csv_connections, \* generator: the rows of the connections CSV, in order
    first_run,     \* history: the files as the first of two merges wrote them
    output         \* generator: output['connections'], one list per settlement

build_vars == <<shapes, junctions, shape_i, segments, cur_code, g_nodes,
                node_index, g_edges, resolved, snap_log>>

merge_vars == <<network, tracks_data, nrwn_tracks, merged_tracks, track_i,
                next_node_num, coord_to_node, new_nodes, new_edges, new_tracks,
                main_component, floating_components, virtual_edges,
                virtual_tracks, net0, res_log, dups_dropped>>

route_vars == <<graph, settlements, settle_i, mappings, connections, conn_i,
                processed_pairs, pair_distances, stats, written, path_query,
                rail_query, route_tracks, results, csv_connections, first_run,
                output>>

verify_vars == <<route_tracks, results, csv_connections, first_run, output>>

vars == <<pc, build_vars, merge_vars, loops_dropped, route_vars>>

VerifyIdle ==
    /\ route_tracks = <<>>
    /\ results = <<>>
    /\ csv_connections = <<>>
    /\ first_run = <<>>
    /\ output = <<>>

----------------------------------------------------------------------------
(* Bounds *)

MaxShapes == 2

----------------------------------------------------------------------------
(* Arithmetic helpers *)

Min(S) == CHOOSE m \in S : \A k \in S : m <= k

Max(S) == CHOOSE m \in S : \A k \in S : m >= k

RECURSIVE SqrtSearch(_, _, _)
SqrtSearch(n, lo, hi) ==
    IF lo >= hi THEN lo
    ELSE LET mid == (lo + hi + 1) \div 2
         IN  IF mid * mid <= n THEN SqrtSearch(n, mid, hi)
                               ELSE SqrtSearch(n, lo, mid - 1)

\* x ** 0.5 at integer resolution
ISqrt(n) == SqrtSearch(n, 0, 46340)

\* Python round(v / p): round half to even
RoundDiv(v, p) ==
    LET q == v \div p
        r == v % p
    IN  IF 2 * r < p THEN q
        ELSE IF 2 * r > p THEN q + 1
        ELSE IF q % 2 = 0 THEN q ELSE q + 1

----------------------------------------------------------------------------
(* Builder: constants and pure functions *)

SNAP_TOLERANCE == 500

GRID_PRECISION == 10

\* (dx * dx + dy * dy) ** 0.5
Dist(p, q) ==
    LET dx == p[1] - q[1]
        dy == p[2] - q[2]
    IN  ISqrt(dx * dx + dy * dy)

round_point(pt) ==
    <<RoundDiv(pt[1], GRID_PRECISION) * GRID_PRECISION,
      RoundDiv(pt[2], GRID_PRECISION) * GRID_PRECISION>>

\* the shapes pass 1 and pass 2 keep: non-null bbox inside the accept rectangle
is_in_saskatchewan(shape) == shape.accepted

RECURSIVE AllVertices(_)
AllVertices(shps) ==
    IF shps = <<>> THEN <<>>
    ELSE (IF is_in_saskatchewan(Head(shps)) THEN Head(shps).points ELSE <<>>)
         \o AllVertices(Tail(shps))

\* point_counts[rounded]: one count per vertex that maps into the cell
PointCount(V, cell) == Cardinality({i \in DOMAIN V : round_point(V[i]) = cell})

\* point_to_original[rounded]: the first vertex that mapped into the cell
PointToOriginal(V, cell) == V[Min({i \in DOMAIN V : round_point(V[i]) = cell})]

find_junction_points(shps) ==
    LET V == AllVertices(shps)
        cells == {round_point(V[i]) : i \in DOMAIN V}
    IN  {PointToOriginal(V, c) : c \in {d \in cells : PointCount(V, d) > 1}}

RECURSIVE calculate_polyline_length(_)
calculate_polyline_length(points) ==
    IF Len(points) < 2 THEN 0
    ELSE Dist(points[1], points[2]) + calculate_polyline_length(Tail(points))

\* variant: any junction at all makes a vertex a junction vertex
is_junction_point_Any(pt, juncs, tolerance) == juncs # {}

is_junction_point(pt, juncs, tolerance) ==
    \E j \in juncs : Dist(pt, j) < tolerance

RECURSIVE SplitFrom(_, _, _, _, _)
SplitFrom(points, juncs, tolerance, i, current) ==
    IF i > Len(points)
    THEN IF Len(current) >= 2
         THEN << <<current, calculate_polyline_length(current)>> >>
         ELSE <<>>
    ELSE LET cur2 == Append(current, points[i])
         IN  IF i < Len(points) /\ is_junction_point(points[i], juncs, tolerance)
             THEN << <<cur2, calculate_polyline_length(cur2)>> >>
                  \o SplitFrom(points, juncs, tolerance, i + 1, <<points[i]>>)
             ELSE SplitFrom(points, juncs, tolerance, i + 1, cur2)

split_track_at_junctions(points, juncs, tolerance) ==
    IF Len(points) < 2 THEN <<>>
    ELSE SplitFrom(points, juncs, tolerance, 2, <<points[1]>>)

\* variant: the search radius is the junction grid cell, not the tolerance
NodesWithin_Grid(nodes, pt, tolerance) ==
    {i \in DOMAIN nodes : Dist(<<nodes[i].x, nodes[i].y>>, pt) < GRID_PRECISION}

\* nodes within tolerance of pt, as positions in insertion order
NodesWithin(nodes, pt, tolerance) ==
    {i \in DOMAIN nodes : Dist(<<nodes[i].x, nodes[i].y>>, pt) < tolerance}

\* variant: only the most recently added node is compared
find_or_create_node_LastOnly(nodes, pt, index, tolerance) ==
    LET near == NodesWithin(nodes, pt, tolerance) \cap {Len(nodes)}
    IN  IF near # {}
        THEN [node_id |-> nodes[Min(near)].id, nodes |-> nodes, index |-> index]
        ELSE [node_id |-> index,
              nodes   |-> Append(nodes, [id |-> index, x |-> pt[1], y |-> pt[2]]),
              index   |-> index + 1]

\* returns the node id, the node list and the next node index
find_or_create_node(nodes, pt, index, tolerance) ==
    LET near == NodesWithin(nodes, pt, tolerance)
    IN  IF near # {}
        THEN [node_id |-> nodes[Min(near)].id, nodes |-> nodes, index |-> index]
        ELSE [node_id |-> index,
              nodes   |-> Append(nodes, [id |-> index, x |-> pt[1], y |-> pt[2]]),
              index   |-> index + 1]

has_edge(edges, u, v) ==
    \E i \in DOMAIN edges : {edges[i].source, edges[i].target} = {u, v}

EdgeIndex(edges, u, v) ==
    CHOOSE i \in DOMAIN edges : {edges[i].source, edges[i].target} = {u, v}

\* variant: the update leaves the stored geometry behind
UpdateEdge_LengthOnly(existing, edge_data) ==
    [existing EXCEPT !.length_m = edge_data.length_m,
                     !.builder_code = edge_data.builder_code]

\* graph[u][v].update(edge_data): every attribute is replaced at once
UpdateEdge(existing, edge_data) ==
    [existing EXCEPT !.length_m = edge_data.length_m,
                     !.builder_code = edge_data.builder_code,
                     !.points = edge_data.points]

\* variant: an equally long segment also replaces the edge
ReplacesExisting_OrEqual(seg_length, existing_length) ==
    seg_length <= existing_length

\* "Keep shorter segment if duplicate"
ReplacesExisting(seg_length, existing_length) == seg_length < existing_length

add_or_update_edge(edges, u, v, edge_data) ==
    IF has_edge(edges, u, v)
    THEN LET i == EdgeIndex(edges, u, v)
         IN  IF ReplacesExisting(edge_data.length_m, edges[i].length_m)
             THEN [edges EXCEPT ![i] = UpdateEdge(edges[i], edge_data)]
             ELSE edges
    ELSE Append(edges, [source |-> u, target |-> v,
                        length_m |-> edge_data.length_m,
                        builder_code |-> edge_data.builder_code,
                        points |-> edge_data.points])

\* variant: the self-loop test is missing
IsSelfLoop_Never(u, v) == FALSE

\* "Skip self-loops"
IsSelfLoop(u, v) == u = v

----------------------------------------------------------------------------
(* Builder inputs *)

Shape(pts, code) == [points |-> pts, accepted |-> TRUE, builder_code |-> code]

ShapePool ==
    { Shape(<< <<0, 0>>, <<1000, 0>> >>, "1"),
      Shape(<< <<0, 10>>, <<1000, 10>> >>, "2"),
      Shape(<< <<0, 10>>, <<500, 10>>, <<1000, 10>> >>, "5"),
      Shape(<< <<0, 0>>, <<400, 0>> >>, "1"),
      Shape(<< <<0, 0>>, <<300, 400>>, <<700, 400>>, <<1000, 0>> >>, "5"),
      Shape(<< <<0, 0>>, <<400, 300>>, <<1000, 300>> >>, "49"),
      Shape(<< <<0, 0>>, <<600, 0>> >>, "2"),
      Shape(<< <<400, 0>>, <<1600, 0>> >>, "5"),
      Shape(<< <<2000, 0>>, <<2003, 0>>, <<3000, 0>> >>, "1"),
      Shape(<< <<1000, -1000>>, <<1000, 0>>, <<1000, 1000>> >>, "2"),
      [points |-> << <<1000, 0>>, <<2000, 0>> >>, accepted |-> FALSE,
       builder_code |-> "49"] }

ShapeLists == UNION {[1..n -> ShapePool] : n \in 0..MaxShapes}

----------------------------------------------------------------------------
(* Builder actions *)

RouteIdle ==
    /\ graph = [nodes |-> <<>>, edges |-> <<>>]
    /\ settlements = <<>>
    /\ settle_i = 1
    /\ mappings = <<>>
    /\ connections = <<>>
    /\ conn_i = 1
    /\ processed_pairs = {}
    /\ pair_distances = <<>>
    /\ stats = <<>>
    /\ written = <<>>
    /\ path_query = <<>>
    /\ rail_query = <<>>
    /\ VerifyIdle

MergeIdle ==
    /\ network = [nodes |-> <<>>, edges |-> <<>>]
    /\ tracks_data = <<>>
    /\ nrwn_tracks = <<>>
    /\ merged_tracks = <<>>
    /\ track_i = 1
    /\ next_node_num = 0
    /\ coord_to_node = <<>>
    /\ new_nodes = <<>>
    /\ new_edges = <<>>
    /\ new_tracks = <<>>
    /\ main_component = {}
    /\ floating_components = <<>>
    /\ virtual_edges = <<>>
    /\ virtual_tracks = <<>>
    /\ net0 = [nodes |-> <<>>, edges |-> <<>>]
    /\ res_log = <<>>
    /\ dups_dropped = 0

\* main: the shapefile is read
BuildInit ==
    /\ pc = "pass1"
    /\ shapes \in ShapeLists
    /\ junctions = {}
    /\ shape_i = 1
    /\ segments = <<>>
    /\ cur_code = ""
    /\ g_nodes = <<>>
    /\ node_index = 0
    /\ g_edges = <<>>
    /\ resolved = <<>>
    /\ snap_log = <<>>
    /\ loops_dropped = 0
    /\ MergeIdle
    /\ RouteIdle

\* load_railway_tracks, first pass
FindJunctions ==
    /\ pc = "pass1"
    /\ junctions' = find_junction_points(shapes)
    /\ pc' = "pass2"
    /\ UNCHANGED <<shapes, shape_i, segments, cur_code, g_nodes, node_index,
                   g_edges, resolved, snap_log, loops_dropped, merge_vars>>
    /\ UNCHANGED route_vars

\* load_railway_tracks, second pass: one shape is filtered and split
SplitTrack ==
    /\ pc = "pass2"
    /\ segments = <<>>
    /\ shape_i <= Len(shapes)
    /\ LET shape == shapes[shape_i]
           split == split_track_at_junctions(shape.points, junctions, SNAP_TOLERANCE)
       IN  /\ segments' =
                  IF ~is_in_saskatchewan(shape) \/ Len(shape.points) < 2 THEN <<>>
                  ELSE IF split = <<>>
                       THEN << <<shape.points, calculate_polyline_length(shape.points)>> >>
                       ELSE split
           /\ cur_code' = shape.builder_code
    /\ shape_i' = shape_i + 1
    /\ UNCHANGED <<pc, shapes, junctions, g_nodes, node_index, g_edges,
                   resolved, snap_log, loops_dropped, merge_vars>>
    /\ UNCHANGED route_vars

\* load_railway_tracks, second pass: one segment is turned into an edge
InsertSegment ==
    /\ pc = "pass2"
    /\ segments # <<>>
    /\ LET seg_points == Head(segments)[1]
           seg_length == Head(segments)[2]
           start_pt == seg_points[1]
           end_pt == seg_points[Len(seg_points)]
           s == find_or_create_node(g_nodes, start_pt, node_index, SNAP_TOLERANCE)
           e == find_or_create_node(s.nodes, end_pt, s.index, SNAP_TOLERANCE)
           edge_data == [length_m |-> seg_length, builder_code |-> cur_code,
                         points |-> seg_points]
       IN  IF Len(seg_points) < 2
           THEN UNCHANGED <<g_nodes, node_index, g_edges, resolved, snap_log,
                            loops_dropped>>
           ELSE /\ g_nodes' = e.nodes
                /\ node_index' = e.index
                /\ snap_log' =
                       << [pt |-> start_pt, node_id |-> s.node_id,
                           near |-> {g_nodes[i].id :
                                       i \in NodesWithin(g_nodes, start_pt, SNAP_TOLERANCE)},
                           before |-> g_nodes],
                          [pt |-> end_pt, node_id |-> e.node_id,
                           near |-> {s.nodes[i].id :
                                       i \in NodesWithin(s.nodes, end_pt, SNAP_TOLERANCE)},
                           before |-> s.nodes] >>
                /\ IF IsSelfLoop(s.node_id, e.node_id)
                   THEN /\ loops_dropped' = loops_dropped + 1
                        /\ UNCHANGED <<g_edges, resolved>>
                   ELSE /\ g_edges' = add_or_update_edge(g_edges, s.node_id,
                                                        e.node_id, edge_data)
                        /\ resolved' = Append(resolved,
                               [pair |-> {s.node_id, e.node_id},
                                length_m |-> seg_length, points |-> seg_points])
                        /\ UNCHANGED loops_dropped
    /\ segments' = Tail(segments)
    /\ UNCHANGED <<pc, shapes, junctions, shape_i, cur_code, merge_vars>>
    /\ UNCHANGED route_vars

\* load_railway_tracks returns the graph
FinishBuild ==
    /\ pc = "pass2"
    /\ segments = <<>>
    /\ shape_i > Len(shapes)
    /\ pc' = "built"
    /\ UNCHANGED <<build_vars, loops_dropped, merge_vars>>
    /\ UNCHANGED route_vars

----------------------------------------------------------------------------
(* Merger: constants and pure functions *)

JUNCTION_TOLERANCE == 500

NEW_NODE_START == 500

\* centimetres per metre: haversine_distance returns metres, carried in cm
CmPerMetre == 100

\* EARTH_RADIUS_M * pi / 180: 11.12 cm per microdegree, times 100
EarthCmPer100Microdegree == 1112

\* a value that is no node id (None)
NoNode == -1

\* great-circle distance in cm between two <<lon, lat>> points
haversine_distance(p, q) ==
    LET dx == p[1] - q[1]
        dy == p[2] - q[2]
    IN  (ISqrt(dx * dx + dy * dy) * EarthCmPer100Microdegree) \div 100

\* round(v, 5) of a coordinate held in microdegrees
Round5(v) == RoundDiv(v, 10) * 10

CoordKey(pt) == <<Round5(pt[1]), Round5(pt[2])>>

\* round(length_m, 1) of a length held in cm
Round1(cm) == RoundDiv(cm, 10) * 10

\* round(length_km, 2) of a length held in cm, in units of 0.01 km
RoundKm2(cm) == RoundDiv(cm, 1000)

\* first existing node within tolerance, or None
find_junction_node(pt, existing_nodes, tolerance) ==
    LET near == {i \in DOMAIN existing_nodes :
                   haversine_distance(pt, <<existing_nodes[i].lon,
                                            existing_nodes[i].lat>>) < tolerance}
    IN  IF near = {} THEN NoNode ELSE existing_nodes[Min(near)].id

RECURSIVE calculate_track_length(_)
calculate_track_length(coordinates) ==
    IF Len(coordinates) < 2 THEN 0
    ELSE haversine_distance(coordinates[1], coordinates[2])
         + calculate_track_length(Tail(coordinates))

\* max(max_node_num + 1, NEW_NODE_START)
FirstNewNodeNum(existing_nodes) ==
    LET max_node_num == Max({0} \cup {existing_nodes[i].id : i \in DOMAIN existing_nodes})
    IN  IF max_node_num + 1 > NEW_NODE_START THEN max_node_num + 1
        ELSE NEW_NODE_START

\* coord_to_node after indexing the existing nodes: the last node of a key wins
IndexExistingNodes(existing_nodes) ==
    LET keys == {CoordKey(<<existing_nodes[i].lon, existing_nodes[i].lat>>) :
                   i \in DOMAIN existing_nodes}
    IN  [k \in keys |->
           existing_nodes[Max({i \in DOMAIN existing_nodes :
               CoordKey(<<existing_nodes[i].lon, existing_nodes[i].lat>>) = k})].id]

\* "Get or create source node" / "Get or create target node"
resolve_endpoint(pt, c2n, existing_nodes, num, nodes) ==
    LET key == CoordKey(pt)
        junction_id == find_junction_node(pt, existing_nodes,
                                          JUNCTION_TOLERANCE * CmPerMetre)
    IN  IF key \in DOMAIN c2n
        THEN [id |-> c2n[key], c2n |-> c2n, num |-> num, nodes |-> nodes]
        ELSE IF junction_id # NoNode
        THEN [id |-> junction_id, c2n |-> c2n, num |-> num, nodes |-> nodes]
        ELSE [id |-> num,
              c2n |-> [k \in DOMAIN c2n \cup {key} |->
                         IF k = key THEN num ELSE c2n[k]],
              num |-> num + 1,
              nodes |-> Append(nodes, [id |-> num, lon |-> pt[1], lat |-> pt[2]])]

\* variant: only the stored orientation is compared
edge_exists_OneWay(edges, source_id, target_id) ==
    \E i \in DOMAIN edges :
        edges[i].source = source_id /\ edges[i].target = target_id

\* "Check if edge already exists", in either orientation
edge_exists(edges, source_id, target_id) ==
    \E i \in DOMAIN edges :
        \/ edges[i].source = source_id /\ edges[i].target = target_id
        \/ edges[i].source = target_id /\ edges[i].target = source_id

\* "Skip self-loops" of the merger
IsChainSelfLoop(source_id, target_id) == source_id = target_id

MergedEdge(source_id, target_id, operator, coords) ==
    [source |-> source_id, target |-> target_id,
     length_m |-> Round1(calculate_track_length(coords)),
     length_km |-> RoundKm2(calculate_track_length(coords)),
     builder_code |-> IF operator = "LMR" THEN "LMR" ELSE "GWR"]

MergedTrack(source_id, target_id, operator, coords) ==
    [source |-> source_id, target |-> target_id, coordinates |-> coords,
     builder_name |-> IF operator = "LMR" THEN "LMR" ELSE "GWR",
     length_km |-> RoundKm2(calculate_track_length(coords))]

----------------------------------------------------------------------------
(* Merger: assembly of the parsed segments into chains *)

MERGE_TOLERANCE == 100

Reverse(s) == [i \in 1..Len(s) |-> s[Len(s) + 1 - i]]

\* s[:-1]
Front(s) == SubSeq(s, 1, Len(s) - 1)

\* s[-1]
Last(s) == s[Len(s)]

\* dist < tolerance, the tolerance given in metres
IsNear(p, q, tolerance_m) ==
    haversine_distance(p, q) < tolerance_m * CmPerMetre

\* the endpoint of one track that find_nearby_endpoint reports: start first
EndpointNear(pt, track, tolerance_m) ==
    IF IsNear(pt, track.coordinates[1], tolerance_m) THEN "start"
    ELSE IF IsNear(pt, Last(track.coordinates), tolerance_m) THEN "end"
    ELSE "none"

\* first unused track with an endpoint within tolerance; j = 0 stands for None
find_nearby_endpoint(pt, tracks, used, tolerance_m) ==
    LET hits == {i \in DOMAIN tracks :
                   ~used[i] /\ EndpointNear(pt, tracks[i], tolerance_m) # "none"}
    IN  IF hits = {} THEN [j |-> 0, endpoint_type |-> "none"]
        ELSE [j |-> Min(hits),
              endpoint_type |-> EndpointNear(pt, tracks[Min(hits)], tolerance_m)]

\* the growing chain after one more segment; ids is the history of the
\* segments consumed, in the order they were consumed
Absorb(c, coords, seg) ==
    [coords |-> coords,
     subdivisions |-> c.subdivisions \cup {seg.subdivision},
     classifications |-> c.classifications \cup {seg.classification},
     ids |-> Append(c.ids, seg.id)]

\* "Extend forward (from end)"
RECURSIVE ExtendForward(_, _, _)
ExtendForward(c, tracks, used) ==
    LET f == find_nearby_endpoint(Last(c.coords), tracks, used, MERGE_TOLERANCE)
        seg == tracks[f.j]
        add == IF f.endpoint_type = "start"
               THEN Tail(seg.coordinates)
               ELSE Tail(Reverse(seg.coordinates))
    IN  IF f.j = 0 THEN [chain |-> c, used |-> used]
        ELSE ExtendForward(Absorb(c, c.coords \o add, seg), tracks,
                           [used EXCEPT ![f.j] = TRUE])

\* "Extend backward (from start)"
RECURSIVE ExtendBackward(_, _, _)
ExtendBackward(c, tracks, used) ==
    LET f == find_nearby_endpoint(c.coords[1], tracks, used, MERGE_TOLERANCE)
        seg == tracks[f.j]
        add == IF f.endpoint_type = "end"
               THEN Front(seg.coordinates)
               ELSE Front(Reverse(seg.coordinates))
    IN  IF f.j = 0 THEN [chain |-> c, used |-> used]
        ELSE ExtendBackward(Absorb(c, add \o c.coords, seg), tracks,
                            [used EXCEPT ![f.j] = TRUE])

\* sorted(names): subdivision names are numbered in alphabetical order
RECURSIVE SortedSeq(_)
SortedSeq(S) ==
    IF S = {} THEN <<>> ELSE <<Min(S)>> \o SortedSeq(S \ {Min(S)})

\* the names of a joined subdivision string: subdivision.split(', ')
SplitNames(subdivision) == {subdivision[i] : i \in DOMAIN subdivision}

\* 'Main' if 'Main' in chain_classifications else list(chain_classifications)[0];
\* the parser admits Main and Siding only, so the set without Main is {Siding}
ChainClassification(classifications) ==
    IF "Main" \in classifications THEN "Main"
    ELSE CHOOSE c \in classifications : TRUE

\* chains.append({...}) of the first pass; subdivision is the sorted names
\* that ', '.join writes
FirstPassChain(operator, c) ==
    [operator |-> operator,
     subdivision |-> SortedSeq(c.subdivisions),
     classification |-> ChainClassification(c.classifications),
     coordinates |-> c.coords,
     segment_ids |-> c.ids]

\* variant: a used segment starts a chain of its own again
StartsChain_Always(used, i) == TRUE

\* "if used[i]: continue"
StartsChain(used, i) == ~used[i]

\* first pass: "Build chains"
RECURSIVE BuildChains(_, _, _, _, _)
BuildChains(operator, tracks, i, used, chains) ==
    IF i > Len(tracks) THEN chains
    ELSE IF ~StartsChain(used, i)
    THEN BuildChains(operator, tracks, i + 1, used, chains)
    ELSE LET start == [coords |-> tracks[i].coordinates,
                       subdivisions |-> {tracks[i].subdivision},
                       classifications |-> {tracks[i].classification},
                       ids |-> <<tracks[i].id>>]
             fwd == ExtendForward(start, tracks, [used EXCEPT ![i] = TRUE])
             bwd == ExtendBackward(fwd.chain, tracks, fwd.used)
         IN  BuildChains(operator, tracks, i + 1, bwd.used,
                         Append(chains, FirstPassChain(operator, bwd.chain)))

\* "Check all 4 connection possibilities", in the order of the code
ChainJoin(coords, other) ==
    LET other_start == other.coordinates[1]
        other_end == Last(other.coordinates)
    IN  IF IsNear(Last(coords), other_start, MERGE_TOLERANCE) THEN "end_start"
        ELSE IF IsNear(Last(coords), other_end, MERGE_TOLERANCE) THEN "end_end"
        ELSE IF IsNear(coords[1], other_end, MERGE_TOLERANCE) THEN "start_end"
        ELSE IF IsNear(coords[1], other_start, MERGE_TOLERANCE) THEN "start_start"
        ELSE "none"

\* merged_coords after the connection of one other chain
JoinedCoords(coords, other, kind) ==
    IF kind = "end_start" THEN coords \o Tail(other.coordinates)
    ELSE IF kind = "end_end" THEN coords \o Tail(Reverse(other.coordinates))
    ELSE IF kind = "start_end" THEN Front(other.coordinates) \o coords
    ELSE Front(Reverse(other.coordinates)) \o coords

\* "Try to extend this chain by connecting to other chains"
RECURSIVE ExtendMerged(_, _, _)
ExtendMerged(m, chains, chain_used) ==
    LET hits == {j \in DOMAIN chains :
                   ~chain_used[j] /\ ChainJoin(m.coords, chains[j]) # "none"}
        j == Min(hits)
        other == chains[j]
    IN  IF hits = {} THEN [merged |-> m, used |-> chain_used]
        ELSE ExtendMerged(
                 [coords |-> JoinedCoords(m.coords, other,
                                          ChainJoin(m.coords, other)),
                  subdivs |-> m.subdivs \cup SplitNames(other.subdivision),
                  class |-> m.class,
                  ids |-> m.ids \o other.segment_ids],
                 chains, [chain_used EXCEPT ![j] = TRUE])

\* "Second pass: merge chains that have nearby endpoints"
RECURSIVE JoinChains(_, _, _, _, _)
JoinChains(operator, chains, i, chain_used, final_chains) ==
    IF i > Len(chains) THEN final_chains
    ELSE IF chain_used[i]
    THEN JoinChains(operator, chains, i + 1, chain_used, final_chains)
    ELSE LET start == [coords |-> chains[i].coordinates,
                       subdivs |-> SplitNames(chains[i].subdivision),
                       class |-> chains[i].classification,
                       ids |-> chains[i].segment_ids]
             ext == ExtendMerged(start, chains, [chain_used EXCEPT ![i] = TRUE])
         IN  JoinChains(operator, chains, i + 1, ext.used,
                 Append(final_chains,
                        [operator |-> operator,
                         subdivision |-> SortedSeq(ext.merged.subdivs),
                         classification |-> ext.merged.class,
                         coordinates |-> ext.merged.coords,
                         segment_ids |-> ext.merged.ids]))

\* the chains of one operator
MergeOperator(operator, tracks) ==
    LET chains == BuildChains(operator, tracks, 1,
                              [i \in DOMAIN tracks |-> FALSE], <<>>)
    IN  JoinChains(operator, chains, 1, [i \in DOMAIN chains |-> FALSE], <<>>)

FirstIndex(tracks, operator) ==
    Min({i \in DOMAIN tracks : tracks[i].operator = operator})

\* by_operator.items(): the operators in the order of their first segment
RECURSIVE MergeByOperator(_, _)
MergeByOperator(tracks, operators) ==
    IF operators = {} THEN <<>>
    ELSE LET operator == CHOOSE o \in operators : \A p \in operators :
                             FirstIndex(tracks, o) <= FirstIndex(tracks, p)
         IN  MergeOperator(operator,
                           SelectSeq(tracks, LAMBDA t : t.operator = operator))
             \o MergeByOperator(tracks, operators \ {operator})

merge_consecutive_segments(nrwn_tracks_in) ==
    MergeByOperator(nrwn_tracks_in,
                    {nrwn_tracks_in[i].operator : i \in DOMAIN nrwn_tracks_in})

----------------------------------------------------------------------------
(* Connector: union-find components and the choice of the main component *)

\* find(x); path compression changes no root and is left out
RECURSIVE Find(_, _)
Find(parent, x) == IF parent[x] = x THEN x ELSE Find(parent, parent[x])

\* "if x not in parent: parent[x] = x"; order is the dict's insertion order
Touch(uf, x) ==
    IF x \in DOMAIN uf.parent THEN uf
    ELSE [parent |-> [y \in DOMAIN uf.parent \cup {x} |->
                        IF y = x THEN x ELSE uf.parent[y]],
          order |-> Append(uf.order, x)]

UnionNodes(uf, x, y) ==
    LET u1 == Touch(uf, x)
        px == Find(u1.parent, x)
        u2 == Touch(u1, y)
        py == Find(u2.parent, y)
    IN  IF px # py THEN [u2 EXCEPT !.parent[px] = py] ELSE u2

RECURSIVE UnionAll(_, _)
UnionAll(uf, edges) ==
    IF edges = <<>> THEN uf
    ELSE UnionAll(UnionNodes(uf, Head(edges).source, Head(edges).target),
                  Tail(edges))

\* roots in the order in which "for node in parent" first meets them
RECURSIVE RootOrder(_, _, _)
RootOrder(uf, i, roots) ==
    IF i > Len(uf.order) THEN roots
    ELSE LET r == Find(uf.parent, uf.order[i])
         IN  RootOrder(uf, i + 1,
                       IF \E k \in DOMAIN roots : roots[k] = r THEN roots
                       ELSE Append(roots, r))

find_connected_components(edges) ==
    LET uf == UnionAll([parent |-> <<>>, order |-> <<>>], edges)
        roots == RootOrder(uf, 1, <<>>)
    IN  [k \in DOMAIN roots |->
           {n \in DOMAIN uf.parent : Find(uf.parent, n) = roots[k]}]

\* the loop that picks main_component; {} stands for None
RECURSIVE ClassifyFrom(_, _, _, _, _)
ClassifyFrom(components, original_node_ids, i, main, floating) ==
    IF i > Len(components) THEN [main |-> main, floating |-> floating]
    ELSE LET comp == components[i]
         IN  IF comp \cap original_node_ids # {}
             THEN IF main = {} \/ Cardinality(comp) > Cardinality(main)
                  THEN ClassifyFrom(components, original_node_ids, i + 1, comp,
                                    IF main # {} THEN Append(floating, main)
                                    ELSE floating)
                  ELSE ClassifyFrom(components, original_node_ids, i + 1, main,
                                    Append(floating, comp))
             ELSE ClassifyFrom(components, original_node_ids, i + 1, main,
                               Append(floating, comp))

\* all_nodes: existing nodes, then new nodes (a later entry of an id wins)
AllNodeIds(existing_nodes, nodes) ==
    {existing_nodes[i].id : i \in DOMAIN existing_nodes}
        \cup {nodes[i].id : i \in DOMAIN nodes}

NodeLonLat(existing_nodes, nodes, id) ==
    LET all == existing_nodes \o nodes
        n == all[Max({i \in DOMAIN all : all[i].id = id})]
    IN  <<n.lon, n.lat>>

\* variant: the first pair met is kept, whatever its distance
ClosestPairs_Any(existing_nodes, nodes, main, comp) ==
    LET known == AllNodeIds(existing_nodes, nodes)
    IN  {pr \in main \X comp : pr[1] \in known /\ pr[2] \in known}

\* the (main, floating) pairs of known nodes with the least distance; the
\* first one met wins, and the sets are iterated in no fixed order
ClosestPairs(existing_nodes, nodes, main, comp) ==
    LET known == AllNodeIds(existing_nodes, nodes)
        pairs == {pr \in main \X comp : pr[1] \in known /\ pr[2] \in known}
        d(pr) == haversine_distance(NodeLonLat(existing_nodes, nodes, pr[2]),
                                    NodeLonLat(existing_nodes, nodes, pr[1]))
    IN  {pr \in pairs : \A other \in pairs : d(pr) <= d(other)}

VirtualEdge(main_id, floating_id, min_dist) ==
    [source |-> main_id, target |-> floating_id,
     length_m |-> Round1(min_dist), length_km |-> RoundKm2(min_dist),
     builder_code |-> "VIRTUAL"]

VirtualTrack(main_id, floating_id, main_pt, floating_pt, min_dist) ==
    [source |-> main_id, target |-> floating_id,
     coordinates |-> <<main_pt, floating_pt>>,
     builder_name |-> "Virtual Connection", length_km |-> RoundKm2(min_dist)]

----------------------------------------------------------------------------
(* Merger inputs: networks the builder can have written, and merged chains *)

MaxTracks == 2

Node(k, lon, lat) == [id |-> k, lon |-> lon, lat |-> lat]

ExistingEdge(s, t, cm) ==
    [source |-> s, target |-> t, length_m |-> Round1(cm),
     length_km |-> RoundKm2(cm), builder_code |-> "1"]

ExistingTrack(s, t, coords, cm) ==
    [source |-> s, target |-> t, coordinates |-> coords,
     builder_name |-> "CPR", length_km |-> RoundKm2(cm)]

EmptyNetwork == [nodes |-> <<>>, edges |-> <<>>, tracks |-> <<>>]

\* one edge n0-n1 and a node n2 left without an edge by a discarded self-loop
SmallNetwork ==
    [nodes |-> <<Node(0, 0, 0), Node(1, 9000, 0), Node(2, 0, 9000)>>,
     edges |-> <<ExistingEdge(0, 1, 100080)>>,
     tracks |-> <<ExistingTrack(0, 1, << <<0, 0>>, <<9000, 0>> >>, 100080)>>]

\* two components: {n0, n1} first in file order, {n2, n3, n4} larger
SplitNetwork ==
    [nodes |-> <<Node(0, 0, 0), Node(1, 9000, 0), Node(2, 20000, 0),
                 Node(3, 29000, 0), Node(4, 29000, 9000)>>,
     edges |-> <<ExistingEdge(0, 1, 100080), ExistingEdge(2, 3, 100080),
                 ExistingEdge(3, 4, 100080)>>,
     tracks |-> <<ExistingTrack(0, 1, << <<0, 0>>, <<9000, 0>> >>, 100080),
                  ExistingTrack(2, 3, << <<20000, 0>>, <<29000, 0>> >>, 100080),
                  ExistingTrack(3, 4, << <<29000, 0>>, <<29000, 9000>> >>, 100080)>>]

NetPool == {EmptyNetwork, SmallNetwork, SplitNetwork}

\* a main-line segment of subdivision 2 (names are numbered alphabetically)
Chain(op, coords) ==
    [operator |-> op, subdivision |-> 2, classification |-> "Main",
     coordinates |-> coords]

\* a siding of subdivision 1
Siding(op, coords) ==
    [operator |-> op, subdivision |-> 1, classification |-> "Siding",
     coordinates |-> coords]

TrackPool ==
    { Chain("LMR", << <<100, 0>>, <<4500, 3000>>, <<8900, 0>> >>),
      Chain("GWR", << <<8900, 0>>, <<100, 0>> >>),
      Chain("GWR", << <<4500, 0>>, <<4500, -9003>> >>),
      Chain("LMR", << <<4496, 0>>, <<4496, -20000>> >>),
      Chain("LMR", << <<4500, 10001>>, <<4500, 20003>> >>),
      Chain("GWR", << <<100, 0>>, <<204, 100>> >>),
      \* starts 450 microdegrees (50 m) east of the end of the chain above
      Siding("LMR", << <<4950, 20003>>, <<9000, 20003>> >>) }

\* the segment at place i of the file; id is history, its place in the file
ParsedTrack(t, i) ==
    [operator |-> t.operator, subdivision |-> t.subdivision,
     classification |-> t.classification, coordinates |-> t.coordinates,
     id |-> i]

TrackLists == UNION {[1..n -> TrackPool] : n \in 0..MaxTracks}

----------------------------------------------------------------------------
(* Merger actions *)

BuildIdle ==
    /\ shapes = <<>>
    /\ junctions = {}
    /\ shape_i = 1
    /\ segments = <<>>
    /\ cur_code = ""
    /\ g_nodes = <<>>
    /\ node_index = 0
    /\ g_edges = <<>>
    /\ resolved = <<>>
    /\ snap_log = <<>>

\* main: the GML file is parsed; the persisted files are as the builder left them
MergeInit ==
    /\ pc = "assemble"
    /\ BuildIdle
    /\ RouteIdle
    /\ loops_dropped = 0
    /\ \E net \in NetPool :
          /\ network = [nodes |-> net.nodes, edges |-> net.edges]
          /\ tracks_data = net.tracks
          /\ net0 = [nodes |-> net.nodes, edges |-> net.edges]
          /\ next_node_num = FirstNewNodeNum(net.nodes)
          /\ coord_to_node = IndexExistingNodes(net.nodes)
    /\ \E l \in TrackLists :
          nrwn_tracks = [i \in DOMAIN l |->
                           ParsedTrack(l[i], i)]
    /\ merged_tracks = <<>>
    /\ track_i = 1
    /\ new_nodes = <<>>
    /\ new_edges = <<>>
    /\ new_tracks = <<>>
    /\ main_component = {}
    /\ floating_components = <<>>
    /\ virtual_edges = <<>>
    /\ virtual_tracks = <<>>
    /\ res_log = <<>>
    /\ dups_dropped = 0

\* main: "No tracks extracted from NRWN data", return 1
NoTracks ==
    /\ pc = "assemble"
    /\ nrwn_tracks = <<>>
    /\ pc' = "no_tracks"
    /\ UNCHANGED <<build_vars, merge_vars, loops_dropped>>
    /\ UNCHANGED route_vars

\* main: merge_consecutive_segments
MergeSegments ==
    /\ pc = "assemble"
    /\ nrwn_tracks # <<>>
    /\ merged_tracks' = merge_consecutive_segments(nrwn_tracks)
    /\ pc' = "integrate"
    /\ UNCHANGED <<build_vars, network, tracks_data, nrwn_tracks, track_i,
                   next_node_num, coord_to_node, new_nodes, new_edges,
                   new_tracks, main_component, floating_components,
                   virtual_edges, virtual_tracks, net0, res_log, dups_dropped,
                   loops_dropped>>
    /\ UNCHANGED route_vars

\* integrate_nrwn_tracks: one chain of the loop
IntegrateTrack ==
    /\ pc = "integrate"
    /\ track_i <= Len(merged_tracks)
    /\ LET track == merged_tracks[track_i]
           coords == track.coordinates
           s == resolve_endpoint(coords[1], coord_to_node, network.nodes,
                                 next_node_num, new_nodes)
           t == resolve_endpoint(coords[Len(coords)], s.c2n, network.nodes,
                                 s.num, s.nodes)
       IN  IF Len(coords) < 2
           THEN UNCHANGED <<coord_to_node, next_node_num, new_nodes, new_edges,
                            new_tracks, res_log, loops_dropped, dups_dropped>>
           ELSE /\ coord_to_node' = t.c2n
                /\ next_node_num' = t.num
                /\ new_nodes' = t.nodes
                /\ res_log' = << [pt |-> coords[1], id |-> s.id],
                                 [pt |-> coords[Len(coords)], id |-> t.id] >>
                /\ IF IsChainSelfLoop(s.id, t.id)
                   THEN /\ loops_dropped' = loops_dropped + 1
                        /\ UNCHANGED <<new_edges, new_tracks, dups_dropped>>
                   ELSE IF edge_exists(network.edges \o new_edges, s.id, t.id)
                   THEN /\ dups_dropped' = dups_dropped + 1
                        /\ UNCHANGED <<new_edges, new_tracks, loops_dropped>>
                   ELSE /\ new_edges' = Append(new_edges,
                               MergedEdge(s.id, t.id, track.operator, coords))
                        /\ new_tracks' = Append(new_tracks,
                               MergedTrack(s.id, t.id, track.operator, coords))
                        /\ UNCHANGED <<loops_dropped, dups_dropped>>
    /\ track_i' = track_i + 1
    /\ UNCHANGED <<pc, build_vars, network, tracks_data, nrwn_tracks,
                   merged_tracks,
                   main_component, floating_components, virtual_edges,
                   virtual_tracks, net0>>
    /\ UNCHANGED route_vars

\* main: "No new edges to add", nothing is written
NoNewEdges ==
    /\ pc = "integrate"
    /\ track_i > Len(merged_tracks)
    /\ new_edges = <<>>
    /\ pc' = "unchanged"
    /\ UNCHANGED <<build_vars, merge_vars, loops_dropped>>
    /\ UNCHANGED route_vars

\* connect_floating_subgraphs up to the loop over the floating components
ClassifyComponents ==
    /\ pc = "integrate"
    /\ track_i > Len(merged_tracks)
    /\ new_edges # <<>>
    /\ LET components == find_connected_components(network.edges \o new_edges)
           original_node_ids == {network.nodes[i].id : i \in DOMAIN network.nodes}
           cl == ClassifyFrom(components, original_node_ids, 1, {}, <<>>)
       IN  /\ main_component' = cl.main
           /\ floating_components' = IF cl.main = {} THEN <<>> ELSE cl.floating
    /\ pc' = "connect"
    /\ UNCHANGED <<build_vars, network, tracks_data, nrwn_tracks,
                   merged_tracks, track_i,
                   next_node_num, coord_to_node, new_nodes, new_edges,
                   new_tracks, virtual_edges, virtual_tracks, net0, res_log,
                   dups_dropped, loops_dropped>>
    /\ UNCHANGED route_vars

\* connect_floating_subgraphs: one floating component of the loop
ConnectComponent ==
    /\ pc = "connect"
    /\ floating_components # <<>>
    /\ LET comp == Head(floating_components)
           best == ClosestPairs(network.nodes, new_nodes, main_component, comp)
       IN  IF best = {}
           THEN UNCHANGED <<main_component, virtual_edges, virtual_tracks>>
           ELSE \E best_pair \in best :
                   LET main_pt == NodeLonLat(network.nodes, new_nodes, best_pair[1])
                       floating_pt == NodeLonLat(network.nodes, new_nodes, best_pair[2])
                       min_dist == haversine_distance(floating_pt, main_pt)
                   IN  /\ virtual_edges' = Append(virtual_edges,
                              VirtualEdge(best_pair[1], best_pair[2], min_dist))
                       /\ virtual_tracks' = Append(virtual_tracks,
                              VirtualTrack(best_pair[1], best_pair[2], main_pt,
                                           floating_pt, min_dist))
                       /\ main_component' = main_component \cup comp
    /\ floating_components' = Tail(floating_components)
    /\ UNCHANGED <<pc, build_vars, network, tracks_data, nrwn_tracks,
                   merged_tracks, track_i,
                   next_node_num, coord_to_node, new_nodes, new_edges,
                   new_tracks, net0, res_log, dups_dropped, loops_dropped>>
    /\ UNCHANGED route_vars

\* main: the virtual edges join the new edges; update_network_files writes both files
UpdateNetworkFiles ==
    /\ pc = "connect"
    /\ floating_components = <<>>
    /\ new_edges' = new_edges \o virtual_edges
    /\ new_tracks' = new_tracks \o virtual_tracks
    /\ network' = [nodes |-> network.nodes \o new_nodes,
                   edges |-> network.edges \o new_edges']
    /\ tracks_data' = tracks_data \o new_tracks'
    /\ pc' = "merged"
    /\ UNCHANGED <<build_vars, nrwn_tracks, merged_tracks, track_i, next_node_num,
                   coord_to_node, new_nodes, main_component,
                   floating_components, virtual_edges, virtual_tracks, net0,
                   res_log, dups_dropped, loops_dropped>>
    /\ UNCHANGED route_vars

\* main run once more on the files it wrote, with the same GML file
MergeAgain ==
    /\ pc = "merged"
    /\ first_run = <<>>
    /\ first_run' = [network |-> network, tracks |-> tracks_data]
    /\ pc' = "assemble"
    /\ net0' = network
    /\ next_node_num' = FirstNewNodeNum(network.nodes)
    /\ coord_to_node' = IndexExistingNodes(network.nodes)
    /\ merged_tracks' = <<>>
    /\ track_i' = 1
    /\ new_nodes' = <<>>
    /\ new_edges' = <<>>
    /\ new_tracks' = <<>>
    /\ main_component' = {}
    /\ floating_components' = <<>>
    /\ virtual_edges' = <<>>
    /\ virtual_tracks' = <<>>
    /\ res_log' = <<>>
    /\ dups_dropped' = 0
    /\ loops_dropped' = 0
    /\ UNCHANGED <<build_vars, network, tracks_data, nrwn_tracks, graph,
                   settlements, settle_i, mappings, connections, conn_i,
                   processed_pairs, pair_distances, stats, written, path_query,
                   rail_query, route_tracks, results, csv_connections, output>>

----------------------------------------------------------------------------
(* Connectivity fix *)

\* 'n557', the node the merge left unconnected
FixSource == 1

\* 'n577', a connected node
FixTarget == 2

\* variant: only the orientation the script writes is compared
FixEdgeExists_OneWay(edges) ==
    \E i \in DOMAIN edges :
        edges[i].source = FixSource /\ edges[i].target = FixTarget

\* "Check if edge already exists"
FixEdgeExists(edges) ==
    \E i \in DOMAIN edges :
        \/ edges[i].source = FixSource /\ edges[i].target = FixTarget
        \/ edges[i].source = FixTarget /\ edges[i].target = FixSource

\* fix_ogema_connectivity.main on the files of the merger; without one of
\* the two nodes it stops on a KeyError before writing
FixConnectivity ==
    /\ pc \in {"merged", "unchanged"}
    /\ {FixSource, FixTarget} \subseteq {network.nodes[i].id : i \in DOMAIN network.nodes}
    /\ LET a == NodeLonLat(network.nodes, <<>>, FixSource)
           b == NodeLonLat(network.nodes, <<>>, FixTarget)
           dist_m == haversine_distance(a, b)
       IN  IF FixEdgeExists(network.edges)
           THEN UNCHANGED <<network, tracks_data>>
           ELSE /\ network' = [network EXCEPT !.edges =
                       Append(@, [source |-> FixSource, target |-> FixTarget,
                                  length_m |-> Round1(dist_m),
                                  length_km |-> RoundKm2(dist_m),
                                  builder_code |-> "2"])]
                /\ tracks_data' = Append(tracks_data,
                       [source |-> FixSource, target |-> FixTarget,
                        coordinates |-> <<a, b>>, builder_name |-> "CPR",
                        length_km |-> RoundKm2(dist_m)])
    /\ pc' = "fixed"
    /\ UNCHANGED <<build_vars, nrwn_tracks, merged_tracks, track_i,
                   next_node_num, coord_to_node, new_nodes, new_edges,
                   new_tracks, main_component, floating_components,
                   virtual_edges, virtual_tracks, net0, res_log, dups_dropped,
                   loops_dropped>>
    /\ UNCHANGED route_vars

----------------------------------------------------------------------------

Init == BuildInit \/ MergeInit

Next ==
    \/ FindJunctions
    \/ SplitTrack
    \/ InsertSegment
    \/ FinishBuild
    \/ NoTracks
    \/ MergeSegments
    \/ IntegrateTrack
    \/ NoNewEdges
    \/ ClassifyComponents
    \/ ConnectComponent
    \/ UpdateNetworkFiles
    \/ MergeAgain
    \/ FixConnectivity

Spec == Init /\ [][Next]_vars

----------------------------------------------------------------------------
(* Snapper: constants and pure functions                                   *)
(*                                                                         *)
(* Positions are the transformer's projected coordinates on a grid of      *)
(* 100 m.  A distance is carried as its square, a ratio <<num, den>> of    *)
(* grid units squared, so that the comparisons of the code are exact;      *)
(* float('inf') is the ratio <<1, 0>>.  The parameter t is a ratio too.    *)
(* Settlement names are numbered in alphabetical order.                    *)

ON_NETWORK_THRESHOLD == 5000

NEAR_NETWORK_THRESHOLD == 15000

MAX_SNAP_DISTANCE == 50000

\* metres per grid unit of the projected coordinates
MetresPerUnit == 100

\* None in a numeric field of a record
Null == -1

\* float('inf')
Inf == <<1, 0>>

\* a < b for two squared distances (sqrt is monotone)
DistLess(a, b) == a[1] * b[2] < b[1] * a[2]

\* (dx * dx + dy * dy), the square of the distance between two positions
SquaredDistance(p, q) ==
    <<(p[1] - q[1]) * (p[1] - q[1]) + (p[2] - q[2]) * (p[2] - q[2]), 1>>

\* a distance in decimetres: round(distance, 1) of the distance in metres
DistanceDm(d) ==
    LET v == ((d[1] * 100) \div d[2]) * MetresPerUnit * MetresPerUnit
        r == ISqrt(v)
    IN  IF v - r * r > r THEN r + 1 ELSE r

\* distance_m <= threshold, the threshold in metres (a multiple of the grid)
WithinMetres(d, threshold) ==
    d[1] <= (threshold \div MetresPerUnit) * (threshold \div MetresPerUnit) * d[2]

\* nodes[node_id]: the projected position of a node
NodeXY(nodes, id) ==
    LET i == Min({k \in DOMAIN nodes : nodes[k].id = id})
    IN  <<nodes[i].x, nodes[i].y>>

\* variant: the first node of the table, whatever its distance
find_nearest_node_First(p, nodes) ==
    IF nodes = <<>> THEN [nearest_id |-> NoNode, min_dist |-> Inf]
    ELSE [nearest_id |-> nodes[1].id,
          min_dist |-> SquaredDistance(<<nodes[1].x, nodes[1].y>>, p)]

\* the first node at the least distance; None and inf for an empty table
find_nearest_node(p, nodes) ==
    LET dist(i) == SquaredDistance(<<nodes[i].x, nodes[i].y>>, p)
        least == {i \in DOMAIN nodes :
                    \A j \in DOMAIN nodes : ~DistLess(dist(j), dist(i))}
    IN  IF nodes = <<>> THEN [nearest_id |-> NoNode, min_dist |-> Inf]
        ELSE [nearest_id |-> nodes[Min(least)].id, min_dist |-> dist(Min(least))]

\* distance from p to the segment a-b and the clamped parameter t
point_to_segment_distance_with_t(p, a, b) ==
    LET dx == b[1] - a[1]
        dy == b[2] - a[2]
        dot == (p[1] - a[1]) * dx + (p[2] - a[2]) * dy
        len2 == dx * dx + dy * dy
        cross == (p[1] - a[1]) * dy - (p[2] - a[2]) * dx
    IN  IF dx = 0 /\ dy = 0
        THEN [dist |-> SquaredDistance(p, a), t |-> <<0, 1>>]
        ELSE IF dot <= 0
        THEN [dist |-> SquaredDistance(p, a), t |-> <<0, 1>>]
        ELSE IF dot >= len2
        THEN [dist |-> SquaredDistance(p, b), t |-> <<1, 1>>]
        ELSE [dist |-> <<cross * cross, len2>>, t |-> <<dot, len2>>]

\* variant: the length of the first edge of the file is reported
BestEdgeLength_First(edges, i) == edges[1].length_km

\* best_edge_length = edge['length_km'] of the edge selected
BestEdgeLength(edges, i) == edges[i].length_km

\* the first edge at the least distance; None, inf, 0, 0 without edges
find_nearest_edge_point(p, edges, nodes) ==
    LET seg(i) == point_to_segment_distance_with_t(
                      p, NodeXY(nodes, edges[i].source),
                      NodeXY(nodes, edges[i].target))
        least == {i \in DOMAIN edges :
                    \A j \in DOMAIN edges : ~DistLess(seg(j).dist, seg(i).dist)}
        i == Min(least)
    IN  IF edges = <<>>
        THEN [best_edge |-> <<>>, min_dist |-> Inf, best_t |-> <<0, 1>>,
              best_edge_length |-> 0]
        ELSE [best_edge |-> <<edges[i].source, edges[i].target>>,
              min_dist |-> seg(i).dist, best_t |-> seg(i).t,
              best_edge_length |-> BestEdgeLength(edges, i)]

classify_snap_quality(distance) ==
    IF WithinMetres(distance, ON_NETWORK_THRESHOLD) THEN "on_network"
    ELSE IF WithinMetres(distance, NEAR_NETWORK_THRESHOLD) THEN "near_network"
    ELSE IF WithinMetres(distance, MAX_SNAP_DISTANCE) THEN "distant"
    ELSE "off_network"

\* variant: the edge is taken when the distances are equal
EdgeCloser_OrEqual(edge_dist, node_dist) == ~DistLess(node_dist, edge_dist)

\* "Use whichever is closer": if edge_dist < node_dist
EdgeCloser(edge_dist, node_dist) == DistLess(edge_dist, node_dist)

\* round(snap_edge_t, 4), in units of 0.0001
RoundT(t) == RoundDiv(t[1] * 10000, t[2])

\* the mapping of one settlement; node_dist and edge_dist are history, the
\* two distances the selection compared
SnapRecord(settlement, net) ==
    LET p == <<settlement.x, settlement.y>>
        n == find_nearest_node(p, net.nodes)
        e == find_nearest_edge_point(p, net.edges, net.nodes)
        edge == EdgeCloser(e.min_dist, n.min_dist)
        snap_nodes == IF edge THEN e.best_edge ELSE <<n.nearest_id>>
        snap_distance == IF edge THEN e.min_dist ELSE n.min_dist
    IN  [settlement |-> settlement.name,
         snap_node |-> snap_nodes[1],
         snap_nodes |-> snap_nodes,
         snap_type |-> IF edge THEN "edge" ELSE "node",
         snap_edge_t |-> IF edge THEN RoundT(e.best_t) ELSE Null,
         snap_edge_length_km |-> IF edge THEN e.best_edge_length ELSE Null,
         snap_distance_m |-> DistanceDm(snap_distance),
         snap_quality |-> classify_snap_quality(snap_distance),
         node_dist |-> n.min_dist,
         edge_dist |-> e.min_dist,
         edge_t |-> e.best_t]

\* mappings.sort(key=lambda m: m['settlement']): a stable sort by name
RECURSIVE SortByName(_)
SortByName(ms) ==
    IF ms = <<>> THEN <<>>
    ELSE LET least == Min({ms[i].settlement : i \in DOMAIN ms})
             i == Min({k \in DOMAIN ms : ms[k].settlement = least})
         IN  <<ms[i]>> \o SortByName(SubSeq(ms, 1, i - 1)
                                     \o SubSeq(ms, i + 1, Len(ms)))

----------------------------------------------------------------------------
(* Snapper and router inputs *)

MaxSettlements == 2

GraphNode(k, x, y) == [id |-> k, x |-> x, y |-> y]

\* an edge of length_km km, held in units of 0.01 km, length_m in cm
GraphEdge(s, t, km2) ==
    [source |-> s, target |-> t, length_m |-> km2 * 1000, length_km |-> km2]

EmptyGraph == [nodes |-> <<>>, edges |-> <<>>]

\* n0 - n1 - n2; the track n0-n1 is 190 m long between nodes 1 km apart
LineGraph ==
    [nodes |-> <<GraphNode(0, 0, 0), GraphNode(1, 10, 0), GraphNode(2, 10, 10)>>,
     edges |-> <<GraphEdge(0, 1, 19), GraphEdge(1, 2, 100)>>]

\* two edges stored from n1, a long direct edge n0-n2, and n3 without edges
StarGraph ==
    [nodes |-> <<GraphNode(0, 0, 0), GraphNode(1, 10, 0), GraphNode(2, 10, 10),
                 GraphNode(3, 0, 10)>>,
     edges |-> <<GraphEdge(1, 0, 104), GraphEdge(1, 2, 112),
                 GraphEdge(0, 2, 320)>>]

\* two components: n0 - n1 and n2 - n3
SplitGraph ==
    [nodes |-> <<GraphNode(0, 0, 0), GraphNode(1, 10, 0), GraphNode(2, 10, 10),
                 GraphNode(3, 0, 10)>>,
     edges |-> <<GraphEdge(0, 1, 100), GraphEdge(2, 3, 100)>>]

GraphPool == {EmptyGraph, LineGraph, StarGraph, SplitGraph}

\* projected positions of settlements
PositionPool ==
    {<<1, 1>>, <<3, 1>>, <<9, 1>>, <<10, 0>>, <<11, 5>>, <<0, 10>>, <<5, 9>>}

\* the names of n settlements, in the order of the file
NameOrders(n) == {[i \in 1..n |-> i], [i \in 1..n |-> n + 1 - i]}

SettlementLists ==
    UNION {{[i \in 1..n |-> [name |-> names[i], x |-> pos[i][1], y |-> pos[i][2]]] :
               names \in NameOrders(n), pos \in [1..n -> PositionPool]} :
           n \in 1..MaxSettlements}

----------------------------------------------------------------------------
(* Snapper actions *)

RouterIdle ==
    /\ connections = <<>>
    /\ conn_i = 1
    /\ processed_pairs = {}
    /\ pair_distances = <<>>
    /\ stats = <<>>
    /\ written = <<>>
    /\ path_query = <<>>
    /\ rail_query = <<>>
    /\ VerifyIdle

\* main: the settlements and the network are loaded
RouteInit ==
    /\ pc = "snap"
    /\ BuildIdle
    /\ MergeIdle
    /\ loops_dropped = 0
    /\ graph \in GraphPool
    /\ settlements \in SettlementLists
    /\ settle_i = 1
    /\ mappings = <<>>
    /\ RouterIdle

\* main: one settlement of the loop
SnapSettlement ==
    /\ UNCHANGED verify_vars
    /\ pc = "snap"
    /\ settle_i <= Len(settlements)
    /\ graph.nodes # <<>>
    /\ mappings' = Append(mappings, SnapRecord(settlements[settle_i], graph))
    /\ settle_i' = settle_i + 1
    /\ UNCHANGED <<pc, build_vars, merge_vars, loops_dropped, graph, settlements,
                   connections, conn_i, processed_pairs, pair_distances, stats,
                   written, path_query, rail_query>>

\* main: without nodes nearest_node is None and nodes[primary_node] raises
SnapFails ==
    /\ pc = "snap"
    /\ settle_i <= Len(settlements)
    /\ graph.nodes = <<>>
    /\ pc' = "snap_error"
    /\ UNCHANGED <<build_vars, merge_vars, loops_dropped, route_vars>>

\* main: the mappings are sorted by settlement name and written
WriteMappings ==
    /\ UNCHANGED verify_vars
    /\ pc = "snap"
    /\ settle_i > Len(settlements)
    /\ mappings' = SortByName(mappings)
    /\ pc' = "snapped"
    /\ UNCHANGED <<build_vars, merge_vars, loops_dropped, graph, settlements,
                   settle_i, connections, conn_i, processed_pairs,
                   pair_distances, stats, written, path_query, rail_query>>

----------------------------------------------------------------------------
(* Router: pure functions                                                  *)
(*                                                                         *)
(* length_m is carried in cm and length_km in units of 0.01 km, as in the  *)
(* merger; snap_edge_t in units of 0.0001; a railway distance in units of  *)
(* 0.1 km, the one decimal it is rounded to.                               *)

\* the key 'railway_distance_km' was not written to a connection
Absent == -2

\* load_network_graph: the nodes of G, those of the node table and of the edges
GraphNodeIds(net) ==
    {net.nodes[i].id : i \in DOMAIN net.nodes}
        \cup {net.edges[i].source : i \in DOMAIN net.edges}
        \cup {net.edges[i].target : i \in DOMAIN net.edges}

EdgesBetween(net, u, v) ==
    {i \in DOMAIN net.edges :
        \/ net.edges[i].source = u /\ net.edges[i].target = v
        \/ net.edges[i].source = v /\ net.edges[i].target = u}

\* G[u][v]['weight']: G.add_edge overwrites, the last edge of a pair wins
GraphWeight(net, u, v) == net.edges[Max(EdgesBetween(net, u, v))].length_m

Neighbours(net, u) ==
    {v \in GraphNodeIds(net) : v # u /\ EdgesBetween(net, u, v) # {}}

\* the total weights of the simple paths from a to b that avoid visited
RECURSIVE PathWeights(_, _, _, _)
PathWeights(net, a, b, visited) ==
    IF a = b THEN {0}
    ELSE UNION {{GraphWeight(net, a, n) + w :
                    w \in PathWeights(net, n, b, visited \cup {a})} :
                n \in Neighbours(net, a) \ visited}

\* load_settlement_mappings: the last record of a name wins
MappingOf(ms, name) ==
    ms[Max({i \in DOMAIN ms : ms[i].settlement = name})]

MappedNames(ms) == {ms[i].settlement : i \in DOMAIN ms}

are_on_same_edge(mapping1, mapping2) ==
    /\ mapping1.snap_type = "edge"
    /\ mapping2.snap_type = "edge"
    /\ SplitNames(mapping1.snap_nodes) = SplitNames(mapping2.snap_nodes)

Abs(v) == IF v < 0 THEN 0 - v ELSE v

\* abs(t2 - t1) * edge_length in units of 0.000001 km, or None
calculate_same_edge_distance(mapping1, mapping2) ==
    IF \/ mapping1.snap_edge_t = Null
       \/ mapping2.snap_edge_t = Null
       \/ mapping1.snap_edge_length_km = Null
    THEN Null
    ELSE Abs(mapping2.snap_edge_t - mapping1.snap_edge_t)
             * mapping1.snap_edge_length_km

\* nx.dijkstra_path and the sum of the weights along it, in cm: the least
\* total weight; None when there is no path; NodeNotFound is raised when
\* the source is not a node of G
calculate_railway_distance(net, node1, node2) ==
    LET weights == PathWeights(net, node1, node2, {})
    IN  IF node1 \notin GraphNodeIds(net) THEN [raised |-> TRUE, total |-> Null]
        ELSE IF weights = {} THEN [raised |-> FALSE, total |-> Null]
        ELSE [raised |-> FALSE, total |-> Min(weights)]

\* round(rail_dist, 1) of the same-edge product
RoundSameEdgeKm(product) == RoundDiv(product, 100000)

\* round(total_m / 1000, 1)
RoundPathKm(total_cm) == RoundDiv(total_cm, 10000)

\* variant: the shared primary node is tested before the shared edge
RouteBranch_NodeFirst(mapping1, mapping2) ==
    IF mapping1.snap_node = mapping2.snap_node THEN "same_node"
    ELSE IF /\ are_on_same_edge(mapping1, mapping2)
            /\ calculate_same_edge_distance(mapping1, mapping2) # Null
    THEN "same_edge"
    ELSE "dijkstra"

\* the branch main takes for a pair with two mappings
RouteBranch(mapping1, mapping2) ==
    IF /\ are_on_same_edge(mapping1, mapping2)
       /\ calculate_same_edge_distance(mapping1, mapping2) # Null
    THEN "same_edge"
    ELSE IF mapping1.snap_node = mapping2.snap_node THEN "same_node"
    ELSE "dijkstra"

\* tuple(sorted([settlement, other]))
PairKey(a, b) == IF a <= b THEN <<a, b>> ELSE <<b, a>>

\* pair_distances[pair_key] = value
Record(pd, key, value) ==
    [k \in DOMAIN pd \cup {key} |-> IF k = key THEN value ELSE pd[k]]

Bump(st, field) == [st EXCEPT ![field] = @ + 1]

----------------------------------------------------------------------------
(* Router: find_path of the route verifier *)

\* build_adjacency: adj[u], one entry per edge end, in the order of the file
RECURSIVE AdjacencyFrom(_, _, _)
AdjacencyFrom(edges, i, u) ==
    IF i > Len(edges) THEN <<>>
    ELSE (IF edges[i].source = u
          THEN <<[node |-> edges[i].target, weight |-> edges[i].length_m]>>
          ELSE <<>>)
         \o (IF edges[i].target = u
             THEN <<[node |-> edges[i].source, weight |-> edges[i].length_m]>>
             ELSE <<>>)
         \o AdjacencyFrom(edges, i + 1, u)

build_adjacency(net) ==
    [u \in GraphNodeIds(net) |-> AdjacencyFrom(net.edges, 1, u)]

\* adj.get(current, [])
AdjGet(adj, u) == IF u \in DOMAIN adj THEN adj[u] ELSE <<>>

\* heapq.heappop: the least (distance, node) tuple
HeapTop(heap) ==
    CHOOSE h \in heap : \A g \in heap :
        h[1] < g[1] \/ (h[1] = g[1] /\ h[2] <= g[2])

\* the for loop over the neighbours of current
RECURSIVE Relax(_, _, _, _)
Relax(neighbours, i, current, s) ==
    IF i > Len(neighbours) THEN s
    ELSE LET neighbor == neighbours[i].node
             new_dist == s.dist[current] + neighbours[i].weight
         IN  IF neighbor \in s.visited
             THEN Relax(neighbours, i + 1, current, s)
             ELSE IF neighbor \notin DOMAIN s.dist \/ new_dist < s.dist[neighbor]
             THEN Relax(neighbours, i + 1, current,
                        [dist |-> Record(s.dist, neighbor, new_dist),
                         prev |-> Record(s.prev, neighbor, current),
                         visited |-> s.visited,
                         heap |-> s.heap \cup {<<new_dist, neighbor>>}])
             ELSE Relax(neighbours, i + 1, current, s)

\* variant: a settled distance is never improved
RelaxStep_FirstSeen(adj, current, s) ==
    Relax(SelectSeq(AdjGet(adj, current),
                    LAMBDA n : n.node \notin DOMAIN s.dist), 1, current, s)

RelaxStep(adj, current, s) == Relax(AdjGet(adj, current), 1, current, s)

\* the while loop over the heap
RECURSIVE DijkstraLoop(_, _, _)
DijkstraLoop(adj, end, s) ==
    IF s.heap = {} THEN s
    ELSE LET top == HeapTop(s.heap)
             popped == [s EXCEPT !.heap = s.heap \ {top}]
             current == top[2]
         IN  IF current \in s.visited THEN DijkstraLoop(adj, end, popped)
             ELSE IF current = end
             THEN [popped EXCEPT !.visited = @ \cup {current}]
             ELSE DijkstraLoop(adj, end,
                      RelaxStep(adj, current,
                                [popped EXCEPT !.visited = @ \cup {current}]))

\* the path written back from end along prev, reversed
RECURSIVE PathBack(_, _)
PathBack(prev, current) ==
    IF current \in DOMAIN prev
    THEN Append(PathBack(prev, prev[current]), current)
    ELSE <<current>>

\* the path as a sequence of node ids, <<>> standing for None
find_path(start, end, adj) ==
    LET s == DijkstraLoop(adj, end,
                 [dist |-> Record(<<>>, start, 0), prev |-> <<>>,
                  visited |-> {}, heap |-> {<<0, start>>}])
    IN  IF start = end THEN <<start>>
        ELSE IF end \notin DOMAIN s.prev THEN <<>>
        ELSE PathBack(s.prev, end)

----------------------------------------------------------------------------
(* Router inputs and actions *)

\* a name of the connections table that has no settlement record
UnknownName == MaxSettlements + 1

Connection(a, b) == [settlement |-> a, to |-> b]

\* connections['connections'], each settlement's list in turn
ConnectionTables ==
    { <<Connection(1, 2)>>,
      <<Connection(1, 2), Connection(2, 1)>>,
      <<Connection(1, UnknownName), Connection(UnknownName, 1)>>,
      <<Connection(UnknownName, 1)>>,
      <<Connection(2, 1), Connection(2, UnknownName)>> }

NoStats ==
    [total_pairs |-> 0, calculated |-> 0, same_edge |-> 0, no_path |-> 0,
     no_mapping |-> 0, same_node |-> 0]

\* main of the router: the network, the mappings and the connections are loaded
StartRouter ==
    /\ UNCHANGED verify_vars
    /\ pc = "snapped"
    /\ connections' \in ConnectionTables
    /\ conn_i' = 1
    /\ processed_pairs' = {}
    /\ pair_distances' = <<>>
    /\ stats' = NoStats
    /\ pc' = "route"
    /\ UNCHANGED <<build_vars, merge_vars, loops_dropped, graph, settlements,
                   settle_i, mappings, written, path_query, rail_query>>

\* main: one connection of the loop "Process each settlement's connections"
RoutePair ==
    /\ UNCHANGED verify_vars
    /\ pc = "route"
    /\ conn_i <= Len(connections)
    /\ LET settlement == connections[conn_i].settlement
           other == connections[conn_i].to
           pair_key == PairKey(settlement, other)
           mapping1 == MappingOf(mappings, settlement)
           mapping2 == MappingOf(mappings, other)
           branch == RouteBranch(mapping1, mapping2)
           rail == calculate_railway_distance(graph, mapping1.snap_node,
                                              mapping2.snap_node)
       IN  IF settlement \notin MappedNames(mappings)
           THEN UNCHANGED <<pc, processed_pairs, pair_distances, stats>>
           ELSE IF pair_key \in processed_pairs
           THEN /\ stats' = Bump(stats, "total_pairs")
                /\ UNCHANGED <<pc, processed_pairs, pair_distances>>
           ELSE IF other \notin MappedNames(mappings)
           THEN /\ stats' = Bump(Bump(stats, "total_pairs"), "no_mapping")
                /\ processed_pairs' = processed_pairs \cup {pair_key}
                /\ pair_distances' = Record(pair_distances, pair_key, Null)
                /\ UNCHANGED pc
           ELSE IF branch = "same_edge"
           THEN /\ stats' = Bump(Bump(Bump(stats, "total_pairs"), "same_edge"),
                                 "calculated")
                /\ processed_pairs' = processed_pairs \cup {pair_key}
                /\ pair_distances' = Record(pair_distances, pair_key,
                       RoundSameEdgeKm(
                           calculate_same_edge_distance(mapping1, mapping2)))
                /\ UNCHANGED pc
           ELSE IF branch = "same_node"
           THEN /\ stats' = Bump(Bump(stats, "total_pairs"), "same_node")
                /\ processed_pairs' = processed_pairs \cup {pair_key}
                /\ pair_distances' = Record(pair_distances, pair_key, 0)
                /\ UNCHANGED pc
           ELSE IF rail.raised
           THEN /\ pc' = "route_error"
                /\ stats' = Bump(stats, "total_pairs")
                /\ processed_pairs' = processed_pairs \cup {pair_key}
                /\ UNCHANGED pair_distances
           ELSE IF rail.total # Null
           THEN /\ stats' = Bump(Bump(stats, "total_pairs"), "calculated")
                /\ processed_pairs' = processed_pairs \cup {pair_key}
                /\ pair_distances' = Record(pair_distances, pair_key,
                                            RoundPathKm(rail.total))
                /\ UNCHANGED pc
           ELSE /\ stats' = Bump(Bump(stats, "total_pairs"), "no_path")
                /\ processed_pairs' = processed_pairs \cup {pair_key}
                /\ pair_distances' = Record(pair_distances, pair_key, Null)
                /\ UNCHANGED pc
    /\ conn_i' = conn_i + 1
    /\ UNCHANGED <<build_vars, merge_vars, loops_dropped, graph, settlements,
                   settle_i, mappings, connections, written, path_query,
                   rail_query>>

\* main: "Apply calculated distances to ALL connections", then the file is saved
ApplyDistances ==
    /\ UNCHANGED verify_vars
    /\ pc = "route"
    /\ conn_i > Len(connections)
    /\ written' = [i \in DOMAIN connections |->
                     LET pair_key == PairKey(connections[i].settlement,
                                             connections[i].to)
                     IN  IF pair_key \in DOMAIN pair_distances
                         THEN pair_distances[pair_key] ELSE Absent]
    /\ pc' = "routed"
    /\ UNCHANGED <<build_vars, merge_vars, loops_dropped, graph, settlements,
                   settle_i, mappings, connections, conn_i, processed_pairs,
                   pair_distances, stats, path_query, rail_query>>

RouteNext ==
    \/ SnapSettlement
    \/ SnapFails
    \/ WriteMappings
    \/ StartRouter
    \/ RoutePair
    \/ ApplyDistances

RouteSpec == RouteInit /\ [][RouteNext]_vars

----------------------------------------------------------------------------
(* The two path searches applied to every pair of nodes of a graph *)

\* equal-length alternatives n0-n1-n3 and n0-n2-n3, a free edge n3-n4, a
\* long direct edge n0-n3 listed first, and n5 - n6 apart
DiamondGraph ==
    [nodes |-> <<GraphNode(0, 0, 0), GraphNode(1, 10, 0), GraphNode(2, 0, 10),
                 GraphNode(3, 10, 10), GraphNode(4, 10, 11),
                 GraphNode(5, 20, 0), GraphNode(6, 20, 10)>>,
     edges |-> <<GraphEdge(0, 3, 250), GraphEdge(0, 1, 100),
                 GraphEdge(3, 1, 100), GraphEdge(2, 0, 100),
                 GraphEdge(2, 3, 100), GraphEdge(3, 4, 0),
                 GraphEdge(5, 6, 100)>>]

PathGraphPool == GraphPool \cup {DiamondGraph}

\* a node id that is in no graph of the pool
AbsentNode == 9

QueryNodes(net) == GraphNodeIds(net) \cup {AbsentNode}

PathInit ==
    /\ pc = "paths"
    /\ BuildIdle
    /\ MergeIdle
    /\ loops_dropped = 0
    /\ graph \in PathGraphPool
    /\ settlements = <<>>
    /\ settle_i = 1
    /\ mappings = <<>>
    /\ RouterIdle

\* verify_connection, "use pathfinding": find_path between two nodes
FindPath ==
    /\ UNCHANGED verify_vars
    /\ pc = "paths"
    /\ path_query = <<>>
    /\ \E start \in QueryNodes(graph), end \in QueryNodes(graph) :
          path_query' = [start |-> start, end |-> end,
                         path |-> find_path(start, end, build_adjacency(graph))]
    /\ UNCHANGED <<pc, build_vars, merge_vars, loops_dropped, graph, settlements,
                   settle_i, mappings, connections, conn_i, processed_pairs,
                   pair_distances, stats, written, rail_query>>

\* calculate_railway_distance between two nodes
RailwayDistance ==
    /\ UNCHANGED verify_vars
    /\ pc = "paths"
    /\ rail_query = <<>>
    /\ \E node1 \in QueryNodes(graph), node2 \in QueryNodes(graph) :
          rail_query' = [node1 |-> node1, node2 |-> node2,
                         result |-> calculate_railway_distance(graph, node1, node2)]
    /\ UNCHANGED <<pc, build_vars, merge_vars, loops_dropped, graph, settlements,
                   settle_i, mappings, connections, conn_i, processed_pairs,
                   pair_distances, stats, written, path_query>>

PathNext ==
    \/ FindPath
    \/ RailwayDistance

PathSpec == PathInit /\ [][PathNext]_vars

----------------------------------------------------------------------------
(* Snapper in floating point                                               *)
(*                                                                         *)
(* The snapper computes in binary floating point: every operation rounds   *)
(* its result to the mantissa, half to even.  Here the mantissa has        *)
(* MantissaBits bits and the projected coordinates are integers, so that   *)
(* the rounding of x1 + t * dx shows on small numbers.  A rounded distance *)
(* is held in units of 1/16 and handed on as the ratio <<r * r, 256>> of   *)
(* its square.  For 0 < t < 1 the distance is carried exactly, as in       *)
(* point_to_segment_distance_with_t above.                                 *)

MantissaBits == 4

MaxCoord == 24

\* the spacing of the floating-point numbers around a
RECURSIVE FlUnit(_)
FlUnit(a) == IF a < 2 ^ MantissaBits THEN 1 ELSE 2 * FlUnit(a \div 2)

\* the floating-point number nearest to the integer v
Fl(v) ==
    IF v < 0 THEN 0 - RoundDiv(0 - v, FlUnit(0 - v)) * FlUnit(0 - v)
    ELSE RoundDiv(v, FlUnit(v)) * FlUnit(v)

\* v ** 0.5 for an integer v, correctly rounded, in units of 1/16
FSqrt(v) ==
    LET f == ISqrt(256 * v)
        u == FlUnit(f)
        lo == (f \div u) * u
        mid2 == (2 * lo + u) * (2 * lo + u)
    IN  IF 1024 * v < mid2 THEN lo
        ELSE IF 1024 * v > mid2 THEN lo + u
        ELSE IF (lo \div u) % 2 = 0 THEN lo ELSE lo + u

\* ((px - qx) ** 2 + (py - qy) ** 2) ** 0.5, as the square of the result
FloatDistance(p, q) ==
    LET dx == Fl(p[1] - q[1])
        dy == Fl(p[2] - q[2])
        r == FSqrt(Fl(Fl(dx * dx) + Fl(dy * dy)))
    IN  <<r * r, 256>>

\* find_nearest_node: the first node at the least rounded distance
FloatNearestNode(p, nodes) ==
    LET dist(i) == FloatDistance(<<nodes[i].x, nodes[i].y>>, p)
        least == {i \in DOMAIN nodes :
                    \A j \in DOMAIN nodes : ~DistLess(dist(j), dist(i))}
    IN  [nearest_id |-> nodes[Min(least)].id, min_dist |-> dist(Min(least))]

\* point_to_segment_distance_with_t: the quotient rounds to 1 from
\* 1 - 2^-(MantissaBits + 1) on, and the nearest point for t = 1 is the
\* rounded x1 + dx, y1 + dy
FloatSegment(p, a, b) ==
    LET dx == Fl(b[1] - a[1])
        dy == Fl(b[2] - a[2])
        dot == Fl(Fl(Fl(p[1] - a[1]) * dx) + Fl(Fl(p[2] - a[2]) * dy))
        len2 == Fl(Fl(dx * dx) + Fl(dy * dy))
        half == 2 ^ (MantissaBits + 1)
    IN  IF dx = 0 /\ dy = 0
        THEN [dist |-> FloatDistance(p, a), t |-> <<0, 1>>]
        ELSE IF dot <= 0
        THEN [dist |-> FloatDistance(p, a), t |-> <<0, 1>>]
        ELSE IF dot * half >= len2 * (half - 1)
        THEN [dist |-> FloatDistance(p, <<Fl(a[1] + dx), Fl(a[2] + dy)>>),
              t |-> <<1, 1>>]
        ELSE point_to_segment_distance_with_t(p, a, b)

\* the mapping of a settlement beside the one edge of the graph
FloatSnapRecord(settlement, net) ==
    LET p == <<settlement.x, settlement.y>>
        n == FloatNearestNode(p, net.nodes)
        e == FloatSegment(p, NodeXY(net.nodes, net.edges[1].source),
                          NodeXY(net.nodes, net.edges[1].target))
        edge == EdgeCloser(e.dist, n.min_dist)
        snap_nodes == IF edge THEN <<net.edges[1].source, net.edges[1].target>>
                      ELSE <<n.nearest_id>>
        snap_distance == IF edge THEN e.dist ELSE n.min_dist
    IN  [settlement |-> settlement.name,
         snap_node |-> snap_nodes[1],
         snap_nodes |-> snap_nodes,
         snap_type |-> IF edge THEN "edge" ELSE "node",
         snap_edge_t |-> IF edge THEN RoundT(e.t) ELSE Null,
         snap_edge_length_km |-> IF edge THEN net.edges[1].length_km ELSE Null,
         snap_distance_m |-> DistanceDm(snap_distance),
         snap_quality |-> classify_snap_quality(snap_distance),
         node_dist |-> n.min_dist,
         edge_dist |-> e.dist,
         edge_t |-> e.t]

\* the coordinates up to MaxCoord that are floating-point numbers
FloatGrid == {v \in 0..MaxCoord : Fl(v) = v}

\* main: one settlement and a network of one edge are loaded
FloatInit ==
    /\ pc = "float_snap"
    /\ BuildIdle
    /\ MergeIdle
    /\ loops_dropped = 0
    /\ \E x1 \in FloatGrid, x2 \in FloatGrid, y2 \in {0, 3} :
          graph = [nodes |-> <<GraphNode(0, x1, 0), GraphNode(1, x2, y2)>>,
                   edges |-> <<GraphEdge(0, 1, 100)>>]
    /\ \E x \in FloatGrid, y \in {0, 1} :
          settlements = <<[name |-> 1, x |-> x, y |-> y]>>
    /\ settle_i = 1
    /\ mappings = <<>>
    /\ RouterIdle

\* main: the settlement is snapped and the mapping is written
SnapFloat ==
    /\ UNCHANGED verify_vars
    /\ pc = "float_snap"
    /\ mappings' = <<FloatSnapRecord(settlements[1], graph)>>
    /\ settle_i' = 2
    /\ pc' = "snapped"
    /\ UNCHANGED <<build_vars, merge_vars, loops_dropped, graph, settlements,
                   connections, conn_i, processed_pairs, pair_distances, stats,
                   written, path_query, rail_query>>

FloatSpec == FloatInit /\ [][SnapFloat]_vars

----------------------------------------------------------------------------
(* Verifier: pure functions                                                *)
(*                                                                         *)
(* Positions are <<lat, lon>> on the grid of the snapper (a node's x is    *)
(* its lon, its y its lat); a great-circle distance is carried as its      *)
(* square, in grid units.  None and the empty list are both <<>>.          *)

\* km
WARN_THRESHOLD == 5

\* km
ERROR_THRESHOLD == 15

\* a threshold in km as a squared distance in grid units
KmSquared(km) ==
    ((km * 1000) \div MetresPerUnit) * ((km * 1000) \div MetresPerUnit)

\* nodes_lookup = {n['id']: n for n in network['nodes']}: its keys
nodes_lookup(nodes) == {nodes[i].id : i \in DOMAIN nodes}

\* haversine(lat1, lon1, lat2, lon2), squared
haversine(p, q) ==
    (p[1] - q[1]) * (p[1] - q[1]) + (p[2] - q[2]) * (p[2] - q[2])

\* abs(a[0] - b[0]) + abs(a[1] - b[1])
Taxicab(a, b) == Abs(a[1] - b[1]) + Abs(a[2] - b[2])

\* nodes_lookup.get(id) as a position
NodeLatLon(nodes, id) == <<NodeXY(nodes, id)[2], NodeXY(nodes, id)[1]>>

\* [[c[1], c[0]] for c in track['coordinates']]
LatLonCoords(track) ==
    [i \in DOMAIN track.coordinates |->
        <<track.coordinates[i][2], track.coordinates[i][1]>>]

NoTrack == [source |-> Null, target |-> Null, coordinates |-> <<>>]

\* build_track_lookup and track_lookup.get: both keys of a track are
\* written, a later track of the pair overwrites
TrackFor(trks, a, b) ==
    LET hits == {i \in DOMAIN trks :
                    \/ trks[i].source = a /\ trks[i].target = b
                    \/ trks[i].source = b /\ trks[i].target = a}
    IN  IF hits = {} THEN NoTrack ELSE trks[Max(hits)]

RECURSIVE PathGeometryFrom(_, _, _, _)
PathGeometryFrom(path, trks, i, all_coords) ==
    IF i >= Len(path) THEN all_coords
    ELSE LET coords == LatLonCoords(TrackFor(trks, path[i], path[i + 1]))
             reversed == /\ all_coords # <<>>
                         /\ Taxicab(Last(all_coords), Last(coords))
                               < Taxicab(Last(all_coords), coords[1])
         IN  IF coords = <<>>
             THEN PathGeometryFrom(path, trks, i + 1, all_coords)
             ELSE PathGeometryFrom(path, trks, i + 1,
                      all_coords \o (IF reversed THEN Reverse(coords) ELSE coords))

get_path_geometry(path, trks) ==
    IF Len(path) < 2 THEN <<>> ELSE PathGeometryFrom(path, trks, 1, <<>>)

\* the first index of a vertex at the least distance from p
ClosestIndex(coords, p) ==
    Min({i \in DOMAIN coords :
            \A j \in DOMAIN coords : haversine(coords[i], p) <= haversine(coords[j], p)})

extend_path_to_edge(coords, mapping, p, trks, at_end) ==
    LET track_coords == LatLonCoords(TrackFor(trks, mapping.snap_nodes[1],
                                              mapping.snap_nodes[2]))
        closest_idx == ClosestIndex(track_coords, p)
        min_dist == haversine(track_coords[closest_idx], p)
        path_endpoint == IF at_end THEN Last(coords) ELSE coords[1]
        current_dist == haversine(path_endpoint, p)
        extension_coords ==
            IF Taxicab(path_endpoint, track_coords[1])
                  < Taxicab(path_endpoint, Last(track_coords))
            THEN SubSeq(track_coords, 1, closest_idx)
            ELSE Reverse(SubSeq(track_coords, closest_idx, Len(track_coords)))
    IN  IF Len(mapping.snap_nodes) # 2 THEN coords
        ELSE IF track_coords = <<>> THEN coords
        ELSE IF min_dist >= current_dist THEN coords
        ELSE IF at_end THEN coords \o Tail(extension_coords)
        ELSE Front(extension_coords) \o coords

find_closest_point_distance(coords, p) ==
    Min({haversine(coords[i], p) : i \in DOMAIN coords})

is_same_edge(nodes1, nodes2) ==
    /\ Len(nodes1) = 2
    /\ Len(nodes2) = 2
    /\ \/ nodes1[1] = nodes2[1] /\ nodes1[2] = nodes2[2]
       \/ nodes1[1] = nodes2[2] /\ nodes1[2] = nodes2[1]

get_same_edge_geometry(from_mapping, to_mapping, from_p, to_p, trks) ==
    LET track_coords == LatLonCoords(TrackFor(trks, from_mapping.snap_nodes[1],
                                              from_mapping.snap_nodes[2]))
        from_idx == ClosestIndex(track_coords, from_p)
        to_idx == ClosestIndex(track_coords, to_p)
        coords == IF from_idx <= to_idx
                  THEN SubSeq(track_coords, from_idx, to_idx)
                  ELSE Reverse(SubSeq(track_coords, to_idx, from_idx))
    IN  IF ~is_same_edge(from_mapping.snap_nodes, to_mapping.snap_nodes) THEN <<>>
        ELSE IF track_coords = <<>> THEN <<>>
        ELSE IF Len(coords) < 2 THEN <<from_p, track_coords[from_idx], to_p>>
        ELSE coords

get_shared_node_geometry(from_mapping, to_mapping, from_p, to_p, trks, nodes) ==
    LET from_coords == LatLonCoords(TrackFor(trks, from_mapping.snap_nodes[1],
                                             from_mapping.snap_nodes[2]))
        to_coords == LatLonCoords(TrackFor(trks, to_mapping.snap_nodes[1],
                                           to_mapping.snap_nodes[2]))
        from_idx == ClosestIndex(from_coords, from_p)
        to_idx == ClosestIndex(to_coords, to_p)
        shared == NodeLatLon(nodes, from_mapping.snap_node)
        from_track_start_is_shared ==
            Taxicab(from_coords[1], shared) < Taxicab(Last(from_coords), shared)
        to_track_start_is_shared ==
            Taxicab(to_coords[1], shared) < Taxicab(Last(to_coords), shared)
        from_portion == IF from_track_start_is_shared
                        THEN Reverse(SubSeq(from_coords, 1, from_idx))
                        ELSE SubSeq(from_coords, from_idx, Len(from_coords))
        to_portion == IF to_track_start_is_shared
                      THEN SubSeq(to_coords, 1, to_idx)
                      ELSE Reverse(SubSeq(to_coords, to_idx, Len(to_coords)))
        combined == from_portion \o Tail(to_portion)
    IN  IF Len(from_mapping.snap_nodes) # 2 \/ Len(to_mapping.snap_nodes) # 2
        THEN <<>>
        ELSE IF from_mapping.snap_node # to_mapping.snap_node THEN <<>>
        ELSE IF is_same_edge(from_mapping.snap_nodes, to_mapping.snap_nodes)
        THEN <<>>
        ELSE IF from_coords = <<>> \/ to_coords = <<>> THEN <<>>
        ELSE IF from_mapping.snap_node \notin nodes_lookup(nodes) THEN <<>>
        ELSE IF Len(combined) >= 2 THEN combined
        ELSE <<>>

get_node_only_geometry(from_mapping, to_mapping, from_p, to_p, trks, nodes) ==
    LET from_is_node_only == Len(from_mapping.snap_nodes) = 1
        to_is_node_only == Len(to_mapping.snap_nodes) = 1
        shared == NodeLatLon(nodes, from_mapping.snap_node)
        edge_mapping == IF from_is_node_only THEN to_mapping ELSE from_mapping
        edge_p == IF from_is_node_only THEN to_p ELSE from_p
        node_p == IF from_is_node_only THEN from_p ELSE to_p
        track_coords == LatLonCoords(TrackFor(trks, edge_mapping.snap_nodes[1],
                                              edge_mapping.snap_nodes[2]))
        node_at_start ==
            Taxicab(track_coords[1], shared) < Taxicab(Last(track_coords), shared)
        closest_idx == ClosestIndex(track_coords, edge_p)
        portion == IF node_at_start THEN SubSeq(track_coords, 1, closest_idx)
                   ELSE Reverse(SubSeq(track_coords, closest_idx, Len(track_coords)))
    IN  IF from_mapping.snap_node # to_mapping.snap_node THEN <<>>
        ELSE IF ~from_is_node_only /\ ~to_is_node_only THEN <<>>
        ELSE IF from_mapping.snap_node \notin nodes_lookup(nodes) THEN <<>>
        ELSE IF from_is_node_only /\ to_is_node_only THEN <<from_p, shared, to_p>>
        ELSE IF track_coords = <<>> THEN <<from_p, shared, to_p>>
        ELSE IF from_is_node_only THEN <<node_p>> \o Tail(portion)
        ELSE Reverse(Front(portion)) \o <<node_p>>

\* variant: only the first settlement's distance is looked at
Classify_FromOnly(from_dist, to_dist) ==
    IF from_dist > KmSquared(ERROR_THRESHOLD) THEN "FAR_FROM_PATH"
    ELSE IF from_dist > KmSquared(WARN_THRESHOLD) THEN "WARNING"
    ELSE "OK"

\* the issues of verify_connection: an error beyond 15 km, a warning beyond 5
Classify(from_dist, to_dist) ==
    IF \/ from_dist > KmSquared(ERROR_THRESHOLD)
       \/ to_dist > KmSquared(ERROR_THRESHOLD)
    THEN "FAR_FROM_PATH"
    ELSE IF \/ from_dist > KmSquared(WARN_THRESHOLD)
            \/ to_dist > KmSquared(WARN_THRESHOLD)
    THEN "WARNING"
    ELSE "OK"

\* verify_connection; path, path_coords and extended_from are history: the
\* node path, its geometry and the geometry after the first extension
verify_connection(from_name, to_name, from_p, to_p, ms, net, trks) ==
    LET from_mapping == MappingOf(ms, from_name)
        to_mapping == MappingOf(ms, to_name)
        from_node == from_mapping.snap_node
        to_node == to_mapping.snap_node
        same_edge == get_same_edge_geometry(from_mapping, to_mapping, from_p,
                                            to_p, trks)
        shared_node == get_shared_node_geometry(from_mapping, to_mapping,
                                                from_p, to_p, trks, net.nodes)
        node_only == get_node_only_geometry(from_mapping, to_mapping, from_p,
                                            to_p, trks, net.nodes)
        case1 == IF from_node # to_node THEN <<>>
                 ELSE IF same_edge # <<>> THEN same_edge
                 ELSE IF shared_node # <<>> THEN shared_node
                 ELSE node_only
        path == find_path(from_node, to_node, build_adjacency(net))
        path_coords == get_path_geometry(path, trks)
        extended_from == extend_path_to_edge(path_coords, from_mapping, from_p,
                                             trks, FALSE)
        extended == extend_path_to_edge(extended_from, to_mapping, to_p, trks,
                                        TRUE)
        coords == IF case1 # <<>> THEN case1 ELSE extended
        out(success, kind, c, pth, pc0, pc1) ==
            [from |-> from_name, to |-> to_name, success |-> success,
             kind |-> kind, coords |-> c, path |-> pth, path_coords |-> pc0,
             extended_from |-> pc1]
    IN  IF from_name \notin MappedNames(ms) \/ to_name \notin MappedNames(ms)
        THEN out(FALSE, "NO_MAPPING", <<>>, <<>>, <<>>, <<>>)
        ELSE IF case1 = <<>> /\ path = <<>>
        THEN out(FALSE, "NO_PATH", <<>>, <<>>, <<>>, <<>>)
        ELSE IF case1 = <<>> /\ Len(path_coords) < 2
        THEN out(FALSE, "NO_GEOMETRY", path_coords, path, path_coords, <<>>)
        ELSE IF Len(coords) < 2
        THEN out(FALSE, "NO_GEOMETRY", coords, <<>>, <<>>, <<>>)
        ELSE LET kind == Classify(find_closest_point_distance(coords, from_p),
                                  find_closest_point_distance(coords, to_p))
             IN  out(kind # "FAR_FROM_PATH", kind, coords,
                     IF case1 # <<>> THEN <<>> ELSE path,
                     IF case1 # <<>> THEN <<>> ELSE path_coords,
                     IF case1 # <<>> THEN <<>> ELSE extended_from)

----------------------------------------------------------------------------
(* Verifier inputs and actions *)

MaxVerified == 2

\* the fields of a snap record that the verifier reads
MappingRead(settlement, net) ==
    LET p == <<settlement.x, settlement.y>>
        n == find_nearest_node(p, net.nodes)
        e == find_nearest_edge_point(p, net.edges, net.nodes)
        snap_nodes == IF EdgeCloser(e.min_dist, n.min_dist) THEN e.best_edge
                      ELSE <<n.nearest_id>>
    IN  [settlement |-> settlement.name, snap_node |-> snap_nodes[1],
         snap_nodes |-> snap_nodes]

Track(s, t, coordinates) ==
    [source |-> s, target |-> t, coordinates |-> coordinates]

\* n0 - n1 - n2 along the x axis, 1 km apart, and a far n3 without edges
VerifyNodes ==
    <<GraphNode(0, 0, 0), GraphNode(1, 10, 0), GraphNode(2, 20, 0),
      GraphNode(3, 200, 0)>>

\* the network with its tracks; a track missing; both edges stored from n1
VerifyWorlds ==
    {[net |-> [nodes |-> VerifyNodes,
               edges |-> <<GraphEdge(0, 1, 100), GraphEdge(1, 2, 100)>>],
      tracks |-> <<Track(0, 1, <<<<0, 0>>, <<5, 0>>, <<10, 0>>>>),
                   Track(1, 2, <<<<10, 0>>, <<20, 0>>>>)>>],
     [net |-> [nodes |-> VerifyNodes,
               edges |-> <<GraphEdge(0, 1, 100), GraphEdge(1, 2, 100)>>],
      tracks |-> <<Track(0, 1, <<<<0, 0>>, <<5, 0>>, <<10, 0>>>>)>>],
     [net |-> [nodes |-> VerifyNodes,
               edges |-> <<GraphEdge(1, 0, 100), GraphEdge(1, 2, 100)>>],
      tracks |-> <<Track(1, 0, <<<<10, 0>>, <<5, 0>>, <<0, 0>>>>),
                   Track(1, 2, <<<<10, 0>>, <<15, 0>>, <<20, 0>>>>)>>]}

\* the settlements of the connections file, as <<lon, lat>>
VerifyPositions ==
    <<<<0, 0>>, <<3, 1>>, <<1, 1>>, <<20, 0>>, <<14, 1>>, <<200, 0>>,
      <<10, 80>>, <<10, 160>>, <<10, 0>>, <<5, 5>>>>

VerifySettlements ==
    [i \in DOMAIN VerifyPositions |->
        [name |-> i, x |-> VerifyPositions[i][1], y |-> VerifyPositions[i][2]]]

\* a settlement of the connections file without a snap record
Unmapped == Len(VerifyPositions)

\* a name of the connections table without a settlement record
Missing == Len(VerifyPositions) + 1

VerifyPairs ==
    {<<1, 4>>, <<4, 1>>, <<1, 3>>, <<3, 1>>, <<2, 3>>, <<4, 2>>, <<2, 4>>,
     <<1, 6>>, <<1, 7>>, <<1, 8>>, <<1, 10>>, <<10, 1>>, <<9, 4>>, <<1, 9>>,
     <<2, 5>>, <<5, 2>>, <<1, 11>>, <<11, 1>>, <<7, 8>>, <<1, 1>>}

VerifyTables ==
    UNION {{[i \in 1..n |-> Connection(t[i][1], t[i][2])] :
               t \in [1..n -> VerifyPairs]} : n \in 1..MaxVerified}

\* main: the four files are loaded
VerifyInit ==
    /\ pc = "verify"
    /\ BuildIdle
    /\ MergeIdle
    /\ loops_dropped = 0
    /\ \E w \in VerifyWorlds :
          /\ graph = w.net
          /\ route_tracks = w.tracks
          /\ mappings = [i \in 1..(Unmapped - 1) |->
                            MappingRead(VerifySettlements[i], w.net)]
    /\ settlements = VerifySettlements
    /\ settle_i = 1
    /\ connections \in VerifyTables
    /\ conn_i = 1
    /\ processed_pairs = {}
    /\ pair_distances = <<>>
    /\ stats = <<>>
    /\ written = <<>>
    /\ path_query = <<>>
    /\ rail_query = <<>>
    /\ results = <<>>
    /\ csv_connections = <<>>
    /\ first_run = <<>>
    /\ output = <<>>

SettlementNames == {settlements[i].name : i \in DOMAIN settlements}

\* settlements.get(name) as a position <<lat, lon>>
SettlementLatLon(name) ==
    LET i == Min({k \in DOMAIN settlements : settlements[k].name = name})
    IN  <<settlements[i].y, settlements[i].x>>

\* main: one connection of the loops over all_connections
VerifyPair ==
    /\ pc = "verify"
    /\ conn_i <= Len(connections)
    /\ LET from_name == connections[conn_i].settlement
           to_name == connections[conn_i].to
           pair == PairKey(from_name, to_name)
       IN  IF from_name \notin SettlementNames
           THEN UNCHANGED <<processed_pairs, results>>
           ELSE IF pair \in processed_pairs
           THEN UNCHANGED <<processed_pairs, results>>
           ELSE IF to_name \notin SettlementNames
           THEN /\ processed_pairs' = processed_pairs \cup {pair}
                /\ UNCHANGED results
           ELSE /\ processed_pairs' = processed_pairs \cup {pair}
                /\ results' = Append(results,
                       verify_connection(from_name, to_name,
                                         SettlementLatLon(from_name),
                                         SettlementLatLon(to_name),
                                         mappings, graph, route_tracks))
    /\ conn_i' = conn_i + 1
    /\ UNCHANGED <<pc, build_vars, merge_vars, loops_dropped, graph,
                   settlements, settle_i, mappings, connections,
                   pair_distances, stats, written, path_query, rail_query,
                   route_tracks, csv_connections, first_run, output>>

VerifySpec == VerifyInit /\ [][VerifyPair]_vars

----------------------------------------------------------------------------
(* Generator                                                               *)
(*                                                                         *)
(* Positions are on a grid of 1 km; a distance of the CSV file is in units *)
(* of 0.01 km, a distance_km written in units of 0.1 km.  Railways are     *)
(* named by strings; None is Null.                                         *)

MaxRows == 2

\* km: "Generous threshold to catch remote settlements"
GapThreshold == 120

\* km: "all within 40km"
NearThreshold == 40

\* settlement_railways after the backfill from settlements.json; a
\* first_railway of None is ""
settlement_railways(s) ==
    IF s.timeline # <<>> THEN s.timeline
    ELSE IF s.first_railway \notin {"No", "Missing", ""} /\ s.railway_arrives # Null
    THEN <<[railway |-> s.first_railway, year |-> s.railway_arrives]>>
    ELSE <<>>

\* output['settlements'][name]['railway_arrives']
railway_arrives(s) ==
    LET railways == settlement_railways(s)
    IN  IF railways # <<>>
        THEN Min({railways[i].year : i \in DOMAIN railways})
        ELSE IF s.first_railway \notin {"No", "Missing", ""} THEN s.railway_arrives
        ELSE Null

\* next(r['year'] for r in railways if r['railway'] == railway)
YearOn(railways, railway) ==
    railways[Min({i \in DOMAIN railways : railways[i].railway = railway})].year

\* the connected years of get_all_shared_railways
SharedYears(s1_railways, s2_railways) ==
    LET names(rs) == {rs[i].railway : i \in DOMAIN rs}
    IN  {Max({YearOn(s1_railways, r), YearOn(s2_railways, r)}) :
            r \in names(s1_railways) \cap names(s2_railways)}

EarliestYear(railways) == Min({railways[i].year : i \in DOMAIN railways})

\* the record appended for a pair, seen from one side
ConnectionTo(to, distance_km, s1_railways, s2_railways, pending) ==
    LET shared == SharedYears(s1_railways, s2_railways)
    IN  IF shared # {}
        THEN [to |-> to, distance_km |-> distance_km,
              connected_year |-> Min(shared), connection_type |-> "same_railway"]
        ELSE IF s1_railways # <<>> /\ s2_railways # <<>>
        THEN [to |-> to, distance_km |-> distance_km,
              connected_year |-> Max({EarliestYear(s1_railways),
                                      EarliestYear(s2_railways)}),
              connection_type |-> "interchange"]
        ELSE IF pending
        THEN [to |-> to, distance_km |-> distance_km,
              connected_year |-> Null, connection_type |-> "None"]
        ELSE <<>>

\* the place of a name in the settlements file, 0 if it has none
IndexOfName(ss, name) ==
    IF \E i \in DOMAIN ss : ss[i].name = name
    THEN Min({i \in DOMAIN ss : ss[i].name = name}) ELSE 0

\* output['connections'][a].append(..) and output['connections'][b].append(..)
AppendBoth(out, ss, a, b, distance_km, pending) ==
    LET ra == settlement_railways(ss[a])
        rb == settlement_railways(ss[b])
        to_b == ConnectionTo(ss[b].name, distance_km, ra, rb, pending)
        to_a == ConnectionTo(ss[a].name, distance_km, ra, rb, pending)
        first == [out EXCEPT ![a] = Append(@, to_b)]
    IN  IF to_b = <<>> THEN out
        ELSE [first EXCEPT ![b] = Append(@, to_a)]

\* round(haversine_km(..), 1), in units of 0.1 km
RoundedKm(d2) ==
    LET v == d2 * 100
        r == ISqrt(v)
    IN  IF v - r * r > r THEN r + 1 ELSE r

\* list.sort(key=..): the stable sort of s by the keys given beside it
RECURSIVE SortBy(_, _)
SortBy(s, keys) ==
    IF s = <<>> THEN <<>>
    ELSE LET least == Min({keys[i] : i \in DOMAIN s})
             i == Min({k \in DOMAIN s : keys[k] = least})
             without(q) == SubSeq(q, 1, i - 1) \o SubSeq(q, i + 1, Len(q))
         IN  <<s[i]>> \o SortBy(without(s), without(keys))

\* the neighbours within 120 km, nearest first
Neighbours120(ss, i) ==
    LET d2(j) == (ss[i].x - ss[j].x) * (ss[i].x - ss[j].x)
                     + (ss[i].y - ss[j].y) * (ss[i].y - ss[j].y)
        all == SelectSeq([j \in DOMAIN ss |-> [idx |-> j, d2 |-> d2(j)]],
                         LAMBDA n : n.idx # i /\ n.d2 <= GapThreshold * GapThreshold)
    IN  SortBy(all, [k \in DOMAIN all |-> all[k].d2])

\* "Take nearest neighbors (up to 5, or all within 40km)", at most 10
RECURSIVE SelectNearest(_, _)
SelectNearest(neighbors, selected) ==
    IF neighbors = <<>> THEN selected
    ELSE IF Len(selected) >= 5 /\ Head(neighbors).d2 > NearThreshold * NearThreshold
    THEN selected
    ELSE IF Len(selected) + 1 >= 10 THEN Append(selected, Head(neighbors))
    ELSE SelectNearest(Tail(neighbors), Append(selected, Head(neighbors)))

RECURSIVE FillFrom(_, _, _, _)
FillFrom(out, ss, i, selected) ==
    IF selected = <<>> THEN out
    ELSE FillFrom(AppendBoth(out, ss, i, Head(selected).idx,
                             RoundedKm(Head(selected).d2), FALSE),
                  ss, i, Tail(selected))

\* any(c.get('connected_year') for c in output['connections'][name])
HasValid(conns) == \E k \in DOMAIN conns : conns[k].connected_year # Null

\* variant: the lists are written in the order they were filled
SortConnections_Unsorted(conns) == conns

\* output['connections'][name].sort(key=lambda x: x['distance_km'])
SortConnections(conns) ==
    SortBy(conns, [k \in DOMAIN conns |-> conns[k].distance_km])

\* the connections table as json.dump writes it and the router reads it
RECURSIVE Flatten(_, _, _)
Flatten(out, ss, i) ==
    IF i > Len(out) THEN <<>>
    ELSE [k \in DOMAIN out[i] |->
             [settlement |-> ss[i].name, to |-> out[i][k].to,
              distance_km |-> out[i][k].distance_km,
              connected_year |-> out[i][k].connected_year,
              connection_type |-> out[i][k].connection_type]]
         \o Flatten(out, ss, i + 1)

----------------------------------------------------------------------------
(* Generator inputs and actions *)

Stop(railway, year) == [railway |-> railway, year |-> year]

GenSettlement(name, x, y, first_rw, rw_arrives, timeline) ==
    [name |-> name, x |-> x, y |-> y, first_railway |-> first_rw,
     railway_arrives |-> rw_arrives, timeline |-> timeline]

\* the settlements of a name: on the timeline, backfilled, or without rail
GenVariants(name) ==
    IF name = 1
    THEN {GenSettlement(1, 0, 0, "CPR", 1905, <<Stop("CPR", 1905)>>)}
    ELSE IF name = 2
    THEN {GenSettlement(2, 30, 0, "CNR", 1908,
                        <<Stop("CPR", 1910), Stop("CNR", 1908)>>),
          GenSettlement(2, 30, 0, "GTP", 1909, <<>>)}
    ELSE {GenSettlement(3, 0, 50, "CNR", 1912, <<>>),
          GenSettlement(3, 0, 50, "No", Null, <<>>)}

Permutations3 ==
    {<<1, 2, 3>>, <<1, 3, 2>>, <<2, 1, 3>>, <<2, 3, 1>>, <<3, 1, 2>>, <<3, 2, 1>>}

GenSettlementLists ==
    UNION {{[i \in 1..3 |-> v[p[i]]] : p \in Permutations3} :
           v \in {f \in [1..3 -> UNION {GenVariants(n) : n \in 1..3}] :
                     \A n \in 1..3 : f[n] \in GenVariants(n)}}

\* a name of the CSV file that is not in settlements.json
Stranger == 4

CsvRow(s1, s2, distance) ==
    [settlement_1 |-> s1, settlement_2 |-> s2, distance_km |-> distance]

CsvRowPool ==
    {CsvRow(1, 2, 3010), CsvRow(2, 1, 2996), CsvRow(1, 3, 5000),
     CsvRow(3, 2, 5831), CsvRow(3, 1, 3004), CsvRow(1, Stranger, 1000)}

CsvTables == UNION {[1..n -> CsvRowPool] : n \in 0..MaxRows}

\* main: the three files are loaded and the output structure is built
GenInit ==
    /\ pc = "gen_csv"
    /\ BuildIdle
    /\ MergeIdle
    /\ loops_dropped = 0
    /\ graph = EmptyGraph
    /\ settlements \in GenSettlementLists
    /\ settle_i = 1
    /\ mappings = <<>>
    /\ connections = <<>>
    /\ conn_i = 1
    /\ processed_pairs = {}
    /\ pair_distances = <<>>
    /\ stats = <<>>
    /\ written = <<>>
    /\ path_query = <<>>
    /\ rail_query = <<>>
    /\ route_tracks = <<>>
    /\ results = <<>>
    /\ first_run = <<>>
    /\ csv_connections \in CsvTables
    /\ output = [i \in DOMAIN settlements |-> <<>>]

gen_unchanged ==
    <<build_vars, merge_vars, loops_dropped, graph, settlements, mappings,
      processed_pairs, pair_distances, stats, written, path_query, rail_query,
      route_tracks, results, csv_connections, first_run>>

\* main: one row of the loop "Process CSV connections"
AddCsvRow ==
    /\ pc = "gen_csv"
    /\ conn_i <= Len(csv_connections)
    /\ LET conn == csv_connections[conn_i]
           s1 == IndexOfName(settlements, conn.settlement_1)
           s2 == IndexOfName(settlements, conn.settlement_2)
       IN  IF s1 = 0 \/ s2 = 0 THEN UNCHANGED output
           ELSE output' = AppendBoth(output, settlements, s1, s2,
                                     RoundDiv(conn.distance_km, 10), TRUE)
    /\ conn_i' = conn_i + 1
    /\ UNCHANGED <<pc, settle_i, connections>>
    /\ UNCHANGED gen_unchanged

\* main: the CSV rows are done, "Fill gaps" begins
StartGaps ==
    /\ pc = "gen_csv"
    /\ conn_i > Len(csv_connections)
    /\ pc' = "gen_gaps"
    /\ UNCHANGED <<settle_i, conn_i, connections, output>>
    /\ UNCHANGED gen_unchanged

\* main: one settlement of the loop "Fill gaps"
FillGap ==
    /\ pc = "gen_gaps"
    /\ settle_i <= Len(settlements)
    /\ IF \/ railway_arrives(settlements[settle_i]) = Null
          \/ HasValid(output[settle_i])
       THEN UNCHANGED output
       ELSE output' = FillFrom(output, settlements, settle_i,
                          SelectNearest(Neighbours120(settlements, settle_i),
                                        <<>>))
    /\ settle_i' = settle_i + 1
    /\ UNCHANGED <<pc, conn_i, connections>>
    /\ UNCHANGED gen_unchanged

\* main: every list is sorted and settlement_connections.json is written;
\* output keeps the lists as they were filled
WriteConnections ==
    /\ pc = "gen_gaps"
    /\ settle_i > Len(settlements)
    /\ connections' = Flatten([i \in DOMAIN output |-> SortConnections(output[i])],
                              settlements, 1)
    /\ pc' = "generated"
    /\ UNCHANGED <<settle_i, conn_i, output>>
    /\ UNCHANGED gen_unchanged

GenNext ==
    \/ AddCsvRow
    \/ StartGaps
    \/ FillGap
    \/ WriteConnections

\* the scripts that write records in an order: generator, snapper, router
OrderSpec == (GenInit \/ RouteInit) /\ [][GenNext \/ RouteNext]_vars

----------------------------------------------------------------------------
(* Properties of the builder *)

EdgePair(e) == {e.source, e.target}

\* every edge list the merger holds or has written
AllMergerEdges == network.edges \o new_edges \o virtual_edges

\* C1: no edge of the builder's graph, of the merged network, of the merger's
\* new edges or of the connector's virtual edges has source = target; a
\* segment or chain whose endpoints resolve to one node adds no edge.
C1_NoSelfLoops ==
    /\ \A i \in DOMAIN g_edges : g_edges[i].source # g_edges[i].target
    /\ \A i \in DOMAIN AllMergerEdges :
           AllMergerEdges[i].source # AllMergerEdges[i].target

\* a merge that discarded a self-loop chain, added an edge and a virtual edge
C1_Witness ==
    /\ pc = "merged"
    /\ loops_dropped > 0
    /\ virtual_edges # <<>>
    /\ Len(new_edges) > Len(virtual_edges)

EdgesOfPair(p) == {i \in DOMAIN g_edges : EdgePair(g_edges[i]) = p}

PairLengths(p) ==
    {resolved[k].length_m : k \in {j \in DOMAIN resolved : resolved[j].pair = p}}

\* one edge per unordered pair, holding the least length resolved to the pair
MinLengthPerPair ==
    /\ \A k \in DOMAIN resolved : Cardinality(EdgesOfPair(resolved[k].pair)) = 1
    /\ \A i \in DOMAIN g_edges :
           /\ EdgesOfPair(EdgePair(g_edges[i])) = {i}
           /\ g_edges[i].length_m = Min(PairLengths(EdgePair(g_edges[i])))

\* a stored edge changes only to a strictly shorter segment
ReplacedOnlyByShorter ==
    \A i \in DOMAIN g_edges :
        g_edges'[i] # g_edges[i] => g_edges'[i].length_m < g_edges[i].length_m

\* C2: in the builder there is at most one edge per unordered node pair, its
\* length_m is the minimum over the non-self-loop segments resolved to the
\* pair, and a later segment replaces it only if strictly shorter.
C2_ShortestPerPair == [][MinLengthPerPair' /\ ReplacedOnlyByShorter]_vars

\* a later, strictly shorter segment of the same pair has replaced the edge
C2_Witness ==
    \E j, k \in DOMAIN resolved :
        /\ j < k
        /\ resolved[j].pair = resolved[k].pair
        /\ resolved[k].length_m < resolved[j].length_m
        /\ \E i \in DOMAIN g_edges :
               /\ EdgePair(g_edges[i]) = resolved[k].pair
               /\ g_edges[i].points = resolved[k].points

\* C3: every edge's length_m is the summed Euclidean length of its own stored
\* points, also after the edge has been replaced by a shorter segment.
C3_LengthOfStoredPoints ==
    \A i \in DOMAIN g_edges :
        g_edges[i].length_m = calculate_polyline_length(g_edges[i].points)

NodePoint(nodes, id) ==
    LET n == nodes[CHOOSE i \in DOMAIN nodes : nodes[i].id = id]
    IN  <<n.x, n.y>>

\* a replaced edge, and an edge of a bent polyline that is longer than the
\* straight line between its two nodes
C3_Witness ==
    /\ \E j, k \in DOMAIN resolved :
           /\ j < k
           /\ resolved[j].pair = resolved[k].pair
           /\ resolved[k].length_m < resolved[j].length_m
    /\ \E i \in DOMAIN g_edges :
           /\ Len(g_edges[i].points) > 2
           /\ g_edges[i].length_m >
                  Dist(NodePoint(g_nodes, g_edges[i].source),
                       NodePoint(g_nodes, g_edges[i].target))

\* C4: no two distinct nodes of the builder's graph are within the snap
\* tolerance of each other.
C4_NodesApart ==
    \A i, j \in DOMAIN g_nodes :
        i # j => Dist(<<g_nodes[i].x, g_nodes[i].y>>,
                      <<g_nodes[j].x, g_nodes[j].y>>) >= SNAP_TOLERANCE

\* three nodes, the last endpoint resolved to an existing node off its position
C4_Witness ==
    /\ Len(g_nodes) >= 3
    /\ \E k \in DOMAIN snap_log :
           /\ snap_log[k].near # {}
           /\ NodePoint(g_nodes, snap_log[k].node_id) # snap_log[k].pt

\* the ids of r.near that are nearest to r.pt
NearestIds(r) ==
    {id \in r.near : \A other \in r.near :
        Dist(NodePoint(r.before, id), r.pt) <= Dist(NodePoint(r.before, other), r.pt)}

\* C5: an endpoint with nodes within snap_tolerance reuses the nearest of them
\* (ties by insertion order); otherwise a new node is created at the endpoint.
C5_NearestReused ==
    \A k \in DOMAIN snap_log :
        LET r == snap_log[k]
        IN  IF r.near # {}
            THEN r.node_id = Min(NearestIds(r))
            ELSE /\ \A i \in DOMAIN r.before : r.before[i].id # r.node_id
                 /\ NodePoint(g_nodes, r.node_id) = r.pt

\* the accepted polylines with a vertex in the cell
CellPolylines(cell) ==
    {k \in DOMAIN shapes :
        /\ is_in_saskatchewan(shapes[k])
        /\ \E i \in DOMAIN shapes[k].points :
               round_point(shapes[k].points[i]) = cell}

\* C6: pass 1 marks a cell as a junction iff two or more distinct accepted
\* polylines have a vertex in it; the junction is the first vertex of the cell.
C6_JunctionIffTwoPolylines ==
    pc \in {"pass2", "built"} =>
        LET V == AllVertices(shapes)
            cells == {round_point(V[i]) : i \in DOMAIN V}
        IN  junctions = {PointToOriginal(V, c) :
                           c \in {d \in cells : Cardinality(CellPolylines(d)) >= 2}}

\* two polylines on horizontal lines 10 m apart with the same extent
IsParallelPair(a, b) ==
    /\ \A i \in DOMAIN a : a[i][2] = a[1][2] /\ a[1][1] <= a[i][1] /\ a[i][1] <= a[Len(a)][1]
    /\ \A i \in DOMAIN b : b[i][2] = b[1][2] /\ b[1][1] <= b[i][1] /\ b[i][1] <= b[Len(b)][1]
    /\ a[1][1] = b[1][1]
    /\ a[Len(a)][1] = b[Len(b)][1]
    /\ (a[1][2] - b[1][2] = 10 \/ b[1][2] - a[1][2] = 10)

ParallelInput ==
    /\ Len(shapes) = 2
    /\ is_in_saskatchewan(shapes[1])
    /\ is_in_saskatchewan(shapes[2])
    /\ IsParallelPair(shapes[1].points, shapes[2].points)

\* C7 as stated: two parallel polylines 10 m apart give two separate edges.
C7_TwoSeparateEdges ==
    (pc = "built" /\ ParallelInput) => Len(g_edges) = 2

\* C7 as amended: with no junction point and the first polyline's endpoints
\* at least snap_tolerance apart, the two polylines give one edge between the
\* two nodes created at the first polyline's endpoints.
C7_ParallelCollapsed ==
    (/\ pc = "built"
     /\ ParallelInput
     /\ junctions = {}
     /\ Dist(shapes[1].points[1],
             shapes[1].points[Len(shapes[1].points)]) >= SNAP_TOLERANCE)
    => /\ Len(g_edges) = 1
       /\ Len(g_nodes) = 2
       /\ <<g_nodes[1].x, g_nodes[1].y>> = shapes[1].points[1]
       /\ <<g_nodes[2].x, g_nodes[2].y>> = shapes[1].points[Len(shapes[1].points)]

\* a finished build of two parallel polylines that ended with one edge
C7_Witness ==
    /\ pc = "built"
    /\ ParallelInput
    /\ junctions = {}
    /\ Len(resolved) = 2
    /\ Len(g_edges) = 1


----------------------------------------------------------------------------
(* Properties of the merger and of the connector *)

IsPrefix(a, b) == Len(a) <= Len(b) /\ \A i \in DOMAIN a : b[i] = a[i]

\* the loaded nodes and edges are still there, unchanged and in place
OriginalKept ==
    /\ IsPrefix(net0.nodes, network.nodes)
    /\ IsPrefix(net0.edges, network.edges)

HasPair(edges, a, b) == \E i \in DOMAIN edges : EdgePair(edges[i]) = {a, b}

\* a chain resolved to a pair that already has an edge adds no edge or track
DuplicatePairAddsNothing ==
    (/\ pc = "integrate"
     /\ track_i' = track_i + 1
     /\ HasPair(network.edges \o new_edges, res_log'[1].id, res_log'[2].id))
    => new_edges' = new_edges /\ new_tracks' = new_tracks

\* C8: the merge keeps every pre-merge node and edge unchanged, and a chain
\* whose endpoints resolve to a pair that already has an edge (loaded or added
\* earlier in the merge, in either orientation) adds no edge.
C8_OriginalTopologyKept == [][OriginalKept' /\ DuplicatePairAddsNothing]_vars

\* a written merge that dropped a duplicate chain and added other edges
C8_Witness ==
    /\ pc = "merged"
    /\ dups_dropped > 0
    /\ net0.edges # <<>>
    /\ Len(network.edges) > Len(net0.edges)

ExistingIds == {net0.nodes[i].id : i \in DOMAIN net0.nodes}

NearExistingNode(pt) ==
    \E i \in DOMAIN net0.nodes :
        haversine_distance(pt, <<net0.nodes[i].lon, net0.nodes[i].lat>>)
            < JUNCTION_TOLERANCE * CmPerMetre

\* C9: a chain endpoint within the junction tolerance of an existing node is
\* resolved to an existing node id; any other endpoint is resolved to a node
\* allocated by the merge, whose id is greater than every existing id, and
\* the allocated ids are pairwise distinct.
C9_EndpointResolution ==
    /\ \A k \in DOMAIN res_log :
           IF NearExistingNode(res_log[k].pt)
           THEN res_log[k].id \in ExistingIds
           ELSE /\ \E i \in DOMAIN new_nodes : new_nodes[i].id = res_log[k].id
                /\ \A id \in ExistingIds : res_log[k].id > id
    /\ \A i, j \in DOMAIN new_nodes :
           i # j => new_nodes[i].id # new_nodes[j].id

EndpointIds(edges) == UNION {EdgePair(edges[i]) : i \in DOMAIN edges}

\* the nodes joined to a node of S by a path of edges
RECURSIVE Reach(_, _)
Reach(S, edges) ==
    LET T == S \cup UNION {EdgePair(edges[i]) :
                             i \in {j \in DOMAIN edges : EdgePair(edges[j]) \cap S # {}}}
    IN  IF T = S THEN S ELSE Reach(T, edges)

IsConnected(edges) ==
    \A a, b \in EndpointIds(edges) : b \in Reach({a}, edges)

ComponentSet(edges) == {Reach({a}, edges) : a \in EndpointIds(edges)}

EndpointsKnown ==
    EndpointIds(network.edges \o new_edges)
        \subseteq AllNodeIds(network.nodes, new_nodes)

\* after the connector, with a main component and every endpoint in the node
\* table, all edges form one component
ConnectedAfterConnector(p, floating, main, known, edges) ==
    (/\ p \in {"connect", "merged"}
     /\ floating = <<>>
     /\ main # {}
     /\ EndpointIds(edges) \subseteq known)
    => IsConnected(edges)

SingleComponentWhenDone ==
    ConnectedAfterConnector(pc', floating_components', main_component',
                            AllNodeIds(network.nodes', new_nodes'),
                            network.edges' \o new_edges' \o virtual_edges')

\* the connector starts from the main component and every other component
ClassifyStep ==
    (pc = "integrate" /\ pc' = "connect" /\ main_component' # {})
    => {main_component'}
           \cup {floating_components'[k] : k \in DOMAIN floating_components'}
       = ComponentSet(network.edges \o new_edges)

\* a floating component gets one virtual edge to the nearest node of the main
\* component as grown so far; exact tells whether length_m is the distance
\* itself or the distance rounded to one decimal
VirtualEdgeStep(exact) ==
    (pc = "connect" /\ floating_components # <<>> /\ EndpointsKnown)
    => LET comp == Head(floating_components)
           e == virtual_edges'[Len(virtual_edges')]
           d == haversine_distance(NodeLonLat(network.nodes, new_nodes, e.target),
                                   NodeLonLat(network.nodes, new_nodes, e.source))
       IN  /\ Len(virtual_edges') = Len(virtual_edges) + 1
           /\ e.source \in main_component
           /\ e.target \in comp
           /\ \A m \in main_component : \A f \in comp :
                  d <= haversine_distance(NodeLonLat(network.nodes, new_nodes, f),
                                          NodeLonLat(network.nodes, new_nodes, m))
           /\ e.length_m = IF exact THEN d ELSE Round1(d)
           /\ main_component' = main_component \cup comp

\* C10 as stated: after connect_floating_subgraphs all edges form a single
\* component; every non-main component receives one virtual edge to the
\* growing main component, on a pair of least great-circle distance, with
\* length_m equal to that distance.
C10_ConnectedExactLength ==
    [][ClassifyStep /\ VirtualEdgeStep(TRUE) /\ SingleComponentWhenDone]_vars

\* C10 as amended: the same, with length_m equal to that distance rounded to
\* one decimal of a metre.
C10_ConnectedRoundedLength ==
    [][ClassifyStep /\ VirtualEdgeStep(FALSE) /\ SingleComponentWhenDone]_vars

\* two components attached in turn, one virtual length changed by the rounding
C10_Witness ==
    /\ pc = "merged"
    /\ main_component # {}
    /\ Len(virtual_edges) >= 2
    /\ \E k \in DOMAIN virtual_edges :
           virtual_edges[k].length_m #
               haversine_distance(
                   NodeLonLat(network.nodes, <<>>, virtual_edges[k].target),
                   NodeLonLat(network.nodes, <<>>, virtual_edges[k].source))

\* the merge ran to its end through update_network_files (main returns 0)
MergeWroteFiles == pc = "merged"

\* C11: if the connector finds no main component, the merge ends in an
\* error outcome and the persisted network is left as it was loaded: the
\* run never reaches the successful end, and no node or edge is written.
C11_NoMainLeavesInputs ==
    (pc \in {"connect", "merged"} /\ main_component = {})
        => (~MergeWroteFiles /\ network = net0)

----------------------------------------------------------------------------
(* Properties of the chain assembly *)

\* merge_consecutive_segments has run on a non-empty input
ChainsAssembled == nrwn_tracks # <<>> /\ pc # "assemble"

\* the input is one run of same-operator segments: the end of each is within
\* merge tolerance of the start of the next, and not the same point
ConsecutiveRun ==
    /\ Len(nrwn_tracks) >= 2
    /\ \A i \in DOMAIN nrwn_tracks : nrwn_tracks[i].operator = nrwn_tracks[1].operator
    /\ \A i \in 1..(Len(nrwn_tracks) - 1) :
          /\ IsNear(Last(nrwn_tracks[i].coordinates),
                    nrwn_tracks[i + 1].coordinates[1], MERGE_TOLERANCE)
          /\ Last(nrwn_tracks[i].coordinates) # nrwn_tracks[i + 1].coordinates[1]

Vertices(coords) == {coords[i] : i \in DOMAIN coords}

\* C12: a run of same-operator segments whose consecutive ends are within
\* merge tolerance but not coincident is assembled into exactly one chain,
\* and the chain's coordinates contain every vertex of every input segment.
C12_ChainKeepsAllVertices ==
    (ChainsAssembled /\ ConsecutiveRun)
        => /\ Len(merged_tracks) = 1
           /\ \A i \in DOMAIN nrwn_tracks :
                 Vertices(nrwn_tracks[i].coordinates)
                     \subseteq Vertices(merged_tracks[1].coordinates)

\* the places (chain, position) at which segment id was consumed
ConsumedAt(id) ==
    UNION {{<<k, n>> : n \in {m \in DOMAIN merged_tracks[k].segment_ids :
                                 merged_tracks[k].segment_ids[m] = id}} :
           k \in DOMAIN merged_tracks}

ChainEnds(chain) == {chain.coordinates[1], Last(chain.coordinates)}

\* C13: the assembled chains are maximal: every input segment is consumed
\* by exactly one output chain, and no two distinct chains of one operator
\* have endpoints within merge tolerance of each other.
C13_ChainsMaximal ==
    ChainsAssembled
        => /\ \A i \in DOMAIN nrwn_tracks : Cardinality(ConsumedAt(i)) = 1
           /\ \A k, l \in DOMAIN merged_tracks :
                 (k # l /\ merged_tracks[k].operator = merged_tracks[l].operator)
                     => \A a \in ChainEnds(merged_tracks[k]),
                           b \in ChainEnds(merged_tracks[l]) :
                           ~IsNear(a, b, MERGE_TOLERANCE)

\* two segments were stitched into one chain
C13_Witness ==
    /\ ChainsAssembled
    /\ \E k \in DOMAIN merged_tracks : Len(merged_tracks[k].segment_ids) >= 2

----------------------------------------------------------------------------
(* Properties of the snapper *)

\* two ratios are the same number
SameRatio(a, b) == a[1] * b[2] = b[1] * a[2]

\* the distance a snap record was selected with
SelectedDistance(m) == IF m.snap_type = "edge" THEN m.edge_dist ELSE m.node_dist

SmallerDistanceSelected(m) ==
    /\ ~DistLess(m.node_dist, SelectedDistance(m))
    /\ ~DistLess(m.edge_dist, SelectedDistance(m))

\* C14 as stated: the smaller of the two distances is selected, and equal
\* distances give an edge snap with two snap_nodes.
C14_TieGivesEdgeSnap ==
    \A i \in DOMAIN mappings :
        /\ SmallerDistanceSelected(mappings[i])
        /\ SameRatio(mappings[i].node_dist, mappings[i].edge_dist)
              => (mappings[i].snap_type = "edge" /\ Len(mappings[i].snap_nodes) = 2)

\* C14 amended: the smaller of the two distances is selected; the snap is
\* an edge snap exactly when the edge distance is strictly smaller, so
\* equal distances give a node snap with one snap_node.
C14_TieGivesNodeSnap ==
    \A i \in DOMAIN mappings :
        /\ SmallerDistanceSelected(mappings[i])
        /\ mappings[i].snap_type = "edge"
              <=> DistLess(mappings[i].edge_dist, mappings[i].node_dist)
        /\ SameRatio(mappings[i].node_dist, mappings[i].edge_dist)
              => (mappings[i].snap_type = "node" /\ Len(mappings[i].snap_nodes) = 1)

\* a settlement at equal, non-zero distance from its nearest node and edge
C14_Witness ==
    \E i \in DOMAIN mappings :
        /\ SameRatio(mappings[i].node_dist, mappings[i].edge_dist)
        /\ mappings[i].node_dist[1] > 0
        /\ mappings[i].snap_type = "node"

\* the settlement a snap record was made for
SettlementOf(m) ==
    settlements[CHOOSE k \in DOMAIN settlements :
                    settlements[k].name = m.settlement]

NodesAt(p) ==
    {graph.nodes[k].id : k \in {j \in DOMAIN graph.nodes :
                                  <<graph.nodes[j].x, graph.nodes[j].y>> = p}}

HasIncidentEdge(id) ==
    \E k \in DOMAIN graph.edges :
        graph.edges[k].source = id \/ graph.edges[k].target = id

\* C15: a settlement whose projected position is the position of a node is
\* snapped to that node (or a coincident one) with snap_type = node, one
\* snap_node and snap_distance_m = 0, whether or not the node has edges.
C15_SettlementAtNode ==
    \A i \in DOMAIN mappings :
        LET m == mappings[i]
            at == NodesAt(<<SettlementOf(m).x, SettlementOf(m).y>>)
        IN  at # {} => /\ m.snap_type = "node"
                       /\ Len(m.snap_nodes) = 1
                       /\ m.snap_nodes[1] \in at
                       /\ m.snap_distance_m = 0

\* one settlement on a node with edges and one on a node without
C15_Witness ==
    /\ \E i \in DOMAIN mappings :
          \E id \in NodesAt(<<SettlementOf(mappings[i]).x,
                              SettlementOf(mappings[i]).y>>) : HasIncidentEdge(id)
    /\ \E i \in DOMAIN mappings :
          \E id \in NodesAt(<<SettlementOf(mappings[i]).x,
                              SettlementOf(mappings[i]).y>>) : ~HasIncidentEdge(id)

\* C16: every snap record is well-formed: a node snap has one snap_node and
\* null snap_edge_t and snap_edge_length_km; an edge snap has the source and
\* target of an edge of the graph, in that order, snap_edge_t in [0, 1] and
\* that edge's length_km; the primary snap_node is the first snap_node.
C16_SnapRecordWellFormed ==
    \A i \in DOMAIN mappings :
        LET m == mappings[i]
        IN  /\ m.snap_type \in {"node", "edge"}
            /\ m.snap_node = m.snap_nodes[1]
            /\ m.snap_type = "node"
                  => /\ Len(m.snap_nodes) = 1
                     /\ m.snap_edge_t = Null
                     /\ m.snap_edge_length_km = Null
            /\ m.snap_type = "edge"
                  => /\ Len(m.snap_nodes) = 2
                     /\ m.snap_edge_t >= 0 /\ m.snap_edge_t <= 10000
                     /\ \E k \in DOMAIN graph.edges :
                           /\ graph.edges[k].source = m.snap_nodes[1]
                           /\ graph.edges[k].target = m.snap_nodes[2]
                           /\ graph.edges[k].length_km = m.snap_edge_length_km

\* an edge snap and a node snap in one mapping file
C16_Witness ==
    /\ \E i \in DOMAIN mappings : mappings[i].snap_type = "edge"
    /\ \E i \in DOMAIN mappings : mappings[i].snap_type = "node"

----------------------------------------------------------------------------
(* Properties of the router *)

\* the pairs the router has recorded a distance for, both settlements mapped
RecordedPairs ==
    {key \in DOMAIN pair_distances :
        key[1] \in MappedNames(mappings) /\ key[2] \in MappedNames(mappings)}

\* both snaps are edge snaps with equal snap_nodes as unordered pairs
OnSameEdge(key) ==
    LET m1 == MappingOf(mappings, key[1])
        m2 == MappingOf(mappings, key[2])
    IN  /\ m1.snap_type = "edge"
        /\ m2.snap_type = "edge"
        /\ {m1.snap_nodes[1], m1.snap_nodes[2]} = {m2.snap_nodes[1], m2.snap_nodes[2]}

\* |t1 - t2| * edge_length_km, in units of 0.000001 km
SameEdgeProduct(key) ==
    LET m1 == MappingOf(mappings, key[1])
        m2 == MappingOf(mappings, key[2])
    IN  Abs(m1.snap_edge_t - m2.snap_edge_t) * m1.snap_edge_length_km

SamePrimaryNode(key) ==
    MappingOf(mappings, key[1]).snap_node = MappingOf(mappings, key[2]).snap_node

\* the total weights, in cm, of the paths between the two primary nodes
PrimaryPathWeights(key) ==
    PathWeights(graph, MappingOf(mappings, key[1]).snap_node,
                MappingOf(mappings, key[2]).snap_node, {})

\* C17 as stated: the same-edge distance is |t1 - t2| * edge_length_km and
\* is 0 only if t1 = t2; otherwise identical primary nodes give 0 km;
\* otherwise the distance is the shortest-path sum of length_m / 1000.
C17_BranchTableExact ==
    \A key \in RecordedPairs :
        IF OnSameEdge(key)
        THEN /\ pair_distances[key] * 100000 = SameEdgeProduct(key)
             /\ pair_distances[key] = 0
                   => MappingOf(mappings, key[1]).snap_edge_t
                         = MappingOf(mappings, key[2]).snap_edge_t
        ELSE IF SamePrimaryNode(key) THEN pair_distances[key] = 0
        ELSE pair_distances[key] # Null
                => pair_distances[key] * 10000 = Min(PrimaryPathWeights(key))

\* C17 amended: the branches are taken in the stated order and each distance
\* is stored rounded to one decimal: round(|t1 - t2| * edge_length_km, 1) on
\* a shared edge, 0 for identical primary nodes, otherwise round(shortest
\* sum of length_m / 1000, 1), or null when there is no path.
C17_BranchTableRounded ==
    \A key \in RecordedPairs :
        pair_distances[key] =
            IF OnSameEdge(key) THEN RoundDiv(SameEdgeProduct(key), 100000)
            ELSE IF SamePrimaryNode(key) THEN 0
            ELSE IF PrimaryPathWeights(key) = {} THEN Null
            ELSE RoundDiv(Min(PrimaryPathWeights(key)), 10000)

\* two settlements at different places of one edge, recorded and written
C17_Witness ==
    /\ pc = "routed"
    /\ \E key \in RecordedPairs :
          /\ OnSameEdge(key)
          /\ SameEdgeProduct(key) > 0
          /\ pair_distances[key] > 0

\* C18: for every pair routed by the same-edge branch the stored
\* railway_distance_km (one decimal) is at most the stored edge_length_km
\* (two decimals) of the edge.
C18_SameEdgeWithinEdgeLength ==
    \A key \in RecordedPairs :
        OnSameEdge(key)
            => pair_distances[key] * 10
                  <= MappingOf(mappings, key[1]).snap_edge_length_km

\* C20: the router never aborts on a pair, and when it has finished every
\* pair of the connections table has a recorded outcome: a distance or null
\* written to its railway_distance_km.
C20_EveryPairRecorded ==
    /\ pc # "route_error"
    /\ pc = "routed" => \A i \in DOMAIN connections : written[i] # Absent


----------------------------------------------------------------------------
(* Properties of the path searches *)

\* the total weight of a path, the sum of the weights of its edges
RECURSIVE PathLength(_, _)
PathLength(path, i) ==
    IF i >= Len(path) THEN 0
    ELSE GraphWeight(graph, path[i], path[i + 1]) + PathLength(path, i + 1)

\* path leads from start to end along edges of the graph
IsPathBetween(path, start, end) ==
    /\ path # <<>>
    /\ path[1] = start
    /\ path[Len(path)] = end
    /\ \A i \in 1..(Len(path) - 1) : path[i + 1] \in Neighbours(graph, path[i])

\* C19: find_path returns a path from start to end of minimal total weight,
\* [start] when start = end, and None exactly when end is unreachable from
\* start; the router's distance for an unreachable pair is null.
C19_FindPathMinimal ==
    /\ path_query # <<>> =>
          LET weights == PathWeights(graph, path_query.start, path_query.end, {})
          IN  /\ path_query.start = path_query.end
                    => path_query.path = <<path_query.start>>
              /\ path_query.path = <<>> <=> weights = {}
              /\ path_query.path # <<>>
                    => /\ IsPathBetween(path_query.path, path_query.start,
                                        path_query.end)
                       /\ PathLength(path_query.path, 1) = Min(weights)
    /\ (/\ rail_query # <<>>
        /\ rail_query.node1 \in GraphNodeIds(graph)
        /\ PathWeights(graph, rail_query.node1, rail_query.node2, {}) = {})
          => (~rail_query.result.raised /\ rail_query.result.total = Null)

\* a shortest path of three nodes where a direct edge is longer, and an
\* unreachable pair given to the router's search
C19_Witness ==
    /\ path_query # <<>>
    /\ Len(path_query.path) = 3
    /\ path_query.end \in Neighbours(graph, path_query.start)
    /\ rail_query # <<>>
    /\ rail_query.node1 \in GraphNodeIds(graph)
    /\ rail_query.node2 \in GraphNodeIds(graph)
    /\ rail_query.result.total = Null

----------------------------------------------------------------------------
(* Properties of the verifier *)

VerifyKinds ==
    {"OK", "WARNING", "FAR_FROM_PATH", "NO_MAPPING", "NO_PATH", "NO_GEOMETRY"}

\* the kind the thresholds give to a polyline of at least two points
KindByDistance(r) ==
    LET from_dist == find_closest_point_distance(r.coords, SettlementLatLon(r.from))
        to_dist == find_closest_point_distance(r.coords, SettlementLatLon(r.to))
    IN  IF from_dist <= KmSquared(WARN_THRESHOLD) /\ to_dist <= KmSquared(WARN_THRESHOLD)
        THEN "OK"
        ELSE IF from_dist > KmSquared(ERROR_THRESHOLD)
                \/ to_dist > KmSquared(ERROR_THRESHOLD)
        THEN "FAR_FROM_PATH"
        ELSE "WARNING"

BothMapped(r) ==
    r.from \in MappedNames(mappings) /\ r.to \in MappedNames(mappings)

\* the primary snap nodes of the pair differ and no path joins them
Unreachable(r) ==
    LET a == MappingOf(mappings, r.from).snap_node
        b == MappingOf(mappings, r.to).snap_node
    IN  a # b /\ PathWeights(graph, a, b, {}) = {}

\* C21: every pair verified gets one kind of the six: NO_MAPPING exactly
\* when a snap record is absent, NO_PATH exactly when both are mapped and no
\* path joins their distinct snap nodes, NO_GEOMETRY when the polyline has
\* fewer than two points, otherwise the kind the 5 km and 15 km thresholds
\* give; success is true exactly for OK and WARNING
C21_OneKindPerPair ==
    \A i \in DOMAIN results :
        LET r == results[i]
        IN  /\ r.kind \in VerifyKinds
            /\ (r.kind = "NO_MAPPING") = ~BothMapped(r)
            /\ BothMapped(r) => ((r.kind = "NO_PATH") = Unreachable(r))
            /\ (BothMapped(r) /\ ~Unreachable(r)) =>
                   IF Len(r.coords) < 2 THEN r.kind = "NO_GEOMETRY"
                   ELSE r.kind = KindByDistance(r)
            /\ r.success = (r.kind \in {"OK", "WARNING"})

C21_Witness ==
    /\ Len(results) = 2
    /\ results[1].kind = "WARNING"
    /\ results[2].kind = "FAR_FROM_PATH"

NodeSnapped(name) == Len(MappingOf(mappings, name).snap_nodes) = 1

\* the pair shares its primary snap node, a node of the node table, and at
\* least one of the two is snapped to it as a node
SharesNodeSnap(r) ==
    /\ BothMapped(r)
    /\ MappingOf(mappings, r.from).snap_node = MappingOf(mappings, r.to).snap_node
    /\ MappingOf(mappings, r.from).snap_node \in nodes_lookup(graph.nodes)
    /\ NodeSnapped(r.from) \/ NodeSnapped(r.to)

\* C22: a pair with the same primary snap node of which at least one is
\* node-snapped always gets a polyline of at least two points and never
\* NO_GEOMETRY; with both node-snapped the polyline is the three-point line
\* settlement, shared node, settlement
C22_SharedNodeHasGeometry ==
    \A i \in DOMAIN results :
        LET r == results[i]
        IN  SharesNodeSnap(r) =>
                /\ r.kind # "NO_GEOMETRY"
                /\ Len(r.coords) >= 2
                /\ (NodeSnapped(r.from) /\ NodeSnapped(r.to)) =>
                       r.coords = <<SettlementLatLon(r.from),
                                    NodeLatLon(graph.nodes,
                                        MappingOf(mappings, r.from).snap_node),
                                    SettlementLatLon(r.to)>>

\* every consecutive pair of the path has a track with coordinates
AllTracksStored(path) ==
    \A k \in 1..(Len(path) - 1) :
        TrackFor(route_tracks, path[k], path[k + 1]).coordinates # <<>>

\* the polyline of the edge a-b running from a to b
Oriented(a, b) ==
    LET coords == LatLonCoords(TrackFor(route_tracks, a, b))
    IN  IF Taxicab(coords[1], NodeLatLon(graph.nodes, a))
              <= Taxicab(Last(coords), NodeLatLon(graph.nodes, a))
        THEN coords ELSE Reverse(coords)

RECURSIVE OrientedChain(_)
OrientedChain(path) ==
    IF Len(path) < 2 THEN <<>>
    ELSE Oriented(path[1], path[2]) \o OrientedChain(Tail(path))

\* C26: the polyline of a path whose edges all have stored geometry is the
\* chain of the edges' polylines, each of them, the first included, running
\* from its node nearer the start of the path to the next node
C26_ChainRunsAlongPath ==
    \A i \in DOMAIN results :
        LET r == results[i]
        IN  (Len(r.path) >= 2 /\ AllTracksStored(r.path)) =>
                r.path_coords = OrientedChain(r.path)

EdgeSnapped(name) == Len(MappingOf(mappings, name).snap_nodes) = 2

\* the closest vertex of the snap edge's track is strictly closer to the
\* settlement than the nearest vertex of the geometry
EdgeVertexCloser(coords, name) ==
    LET m == MappingOf(mappings, name)
        track_coords == LatLonCoords(TrackFor(route_tracks, m.snap_nodes[1],
                                              m.snap_nodes[2]))
        p == SettlementLatLon(name)
    IN  /\ EdgeSnapped(name)
        /\ track_coords # <<>>
        /\ find_closest_point_distance(track_coords, p)
              < find_closest_point_distance(coords, p)

\* C27: the geometry of a Dijkstra route is changed by an extension only
\* when the snap edge's closest vertex is strictly closer to the settlement
\* than the nearest vertex already in the geometry, and the extension then
\* strictly reduces the settlement's distance to the nearest vertex
C27_ExtensionOnlyIfCloser ==
    \A i \in DOMAIN results :
        LET r == results[i]
            from_p == SettlementLatLon(r.from)
            to_p == SettlementLatLon(r.to)
        IN  Len(r.path_coords) >= 2 =>
                /\ r.extended_from # r.path_coords =>
                       /\ EdgeVertexCloser(r.path_coords, r.from)
                       /\ find_closest_point_distance(r.extended_from, from_p)
                             < find_closest_point_distance(r.path_coords, from_p)
                /\ r.coords # r.extended_from =>
                       /\ EdgeVertexCloser(r.extended_from, r.to)
                       /\ find_closest_point_distance(r.coords, to_p)
                             < find_closest_point_distance(r.extended_from, to_p)

----------------------------------------------------------------------------
(* Properties of the snapper in floating point *)

\* C30: whenever the snapper produces an edge snap, the parameter t computed
\* for it (before rounding) lies strictly inside (0, 1) and the selected
\* edge is not degenerate; a settlement whose nearest point of the edge is
\* an endpoint is node-snapped.
C30_EdgeSnapStrictlyInside ==
    \A i \in DOMAIN mappings :
        mappings[i].snap_type = "edge"
            => /\ 0 < mappings[i].edge_t[1]
               /\ mappings[i].edge_t[1] < mappings[i].edge_t[2]
               /\ NodeXY(graph.nodes, mappings[i].snap_nodes[1])
                     # NodeXY(graph.nodes, mappings[i].snap_nodes[2])

----------------------------------------------------------------------------
(* Properties of the split of a polyline *)

\* the index in points of the last vertex of segment k
RECURSIVE CutIndex(_, _)
CutIndex(segs, k) ==
    IF k = 0 THEN 1 ELSE CutIndex(segs, k - 1) + Len(segs[k][1]) - 1

\* the segments joined, each shared vertex taken once
RECURSIVE JoinSegments(_)
JoinSegments(segs) ==
    IF Len(segs) = 1 THEN segs[1][1]
    ELSE segs[1][1] \o Tail(JoinSegments(Tail(segs)))

RECURSIVE SumLengths(_)
SumLengths(segs) ==
    IF segs = <<>> THEN 0 ELSE segs[1][2] + SumLengths(Tail(segs))

IsPartition(points, segs, juncs) ==
    /\ segs # <<>>
    /\ \A k \in DOMAIN segs :
          /\ Len(segs[k][1]) >= 2
          /\ segs[k][2] = calculate_polyline_length(segs[k][1])
    /\ \A k \in 1..(Len(segs) - 1) :
          /\ segs[k][1][Len(segs[k][1])] = segs[k + 1][1][1]
          /\ 1 < CutIndex(segs, k)
          /\ CutIndex(segs, k) < Len(points)
          /\ \E j \in juncs : Dist(points[CutIndex(segs, k)], j) < SNAP_TOLERANCE
    /\ JoinSegments(segs) = points
    /\ SumLengths(segs) = calculate_polyline_length(points)

\* C25: split_track_at_junctions partitions a polyline of n >= 2 points
\* without loss: it splits only at interior vertices within tolerance of a
\* junction point, every segment has at least two points, consecutive
\* segments share the split vertex, the segments joined give the original
\* points, and the segment lengths sum to the polyline's length.
C25_SplitPartitions ==
    [][(/\ shape_i' = shape_i + 1
        /\ is_in_saskatchewan(shapes[shape_i])
        /\ Len(shapes[shape_i].points) >= 2)
           => IsPartition(shapes[shape_i].points, segments', junctions)]_vars

\* a polyline of three or more points was split into two or more segments
C25_Witness ==
    /\ pc = "pass2"
    /\ shape_i > 1
    /\ Len(segments) >= 2
    /\ Len(shapes[shape_i - 1].points) >= 3

----------------------------------------------------------------------------
(* Properties of the order of the records written *)

\* the entries of one settlement, in the order of the file
EntriesOf(name) == SelectSeq(connections, LAMBDA c : c.settlement = name)

\* the snap records are in the order of the settlement names
MappingsByName ==
    \A i, j \in DOMAIN mappings :
        i < j => mappings[i].settlement <= mappings[j].settlement

\* C24 as stated: the records written are in the order of the settlement
\* names and, within one settlement, of the target names
C24_SortedByNameThenTarget ==
    /\ pc = "snapped" => MappingsByName
    /\ pc = "generated" =>
          \A i, j \in DOMAIN connections :
              i < j =>
                  \/ connections[i].settlement < connections[j].settlement
                  \/ /\ connections[i].settlement = connections[j].settlement
                     /\ connections[i].to <= connections[j].to

\* C24 as the scripts have it: the snap records are in the order of the
\* settlement names; the connections are grouped by settlement in the order
\* of the settlements file, and those of one settlement are in the order of
\* their distance_km, equal distances in the order they were appended
C24_SortedByDistance ==
    /\ pc = "snapped" => MappingsByName
    /\ pc = "generated" =>
          /\ \A i, j \in DOMAIN connections :
                 i < j => IndexOfName(settlements, connections[i].settlement)
                              <= IndexOfName(settlements, connections[j].settlement)
          /\ \A s \in DOMAIN settlements :
                 LET entries == EntriesOf(settlements[s].name)
                     at(seq, d) ==
                         LET sel == SelectSeq(seq, LAMBDA c : c.distance_km = d)
                         IN  [k \in DOMAIN sel |->
                                 <<sel[k].to, sel[k].connected_year,
                                   sel[k].connection_type>>]
                 IN  /\ \A k, l \in DOMAIN entries :
                            k < l => entries[k].distance_km <= entries[l].distance_km
                     /\ Len(entries) = Len(output[s])
                     /\ \A n \in DOMAIN output[s] :
                            at(entries, output[s][n].distance_km)
                                = at(output[s], output[s][n].distance_km)

\* a settlement written after one of a greater name, with its nearer target
\* of the greater name first and a list that the sort has reordered
C24_Witness ==
    /\ pc = "generated"
    /\ \E i, j \in DOMAIN connections :
          /\ i < j
          /\ connections[i].settlement > connections[j].settlement
    /\ \E s \in DOMAIN settlements :
          LET entries == EntriesOf(settlements[s].name)
          IN  /\ Len(entries) >= 2
              /\ entries[1].to > entries[2].to
              /\ entries[1].distance_km < entries[2].distance_km
              /\ output[s][1].distance_km > output[s][2].distance_km

----------------------------------------------------------------------------
(* Properties of repeated runs *)

\* C28: a second merge with the same GML file on the files the first merge
\* wrote adds no node, no edge, no virtual edge and no track, and leaves
\* the files as the first merge wrote them
C28_SecondMergeAddsNothing ==
    (first_run # <<>> /\ pc # "fixed") =>
        /\ new_nodes = <<>>
        /\ new_edges = <<>>
        /\ new_tracks = <<>>
        /\ virtual_edges = <<>>
        /\ network = first_run.network
        /\ tracks_data = first_run.tracks

\* the unordered node pairs of an edge list are all different
OnePerPair(edges) ==
    \A i, j \in DOMAIN edges :
        i # j => PairKey(edges[i].source, edges[i].target)
                     # PairKey(edges[j].source, edges[j].target)

\* C29: the edge list the builder writes, and the edge list of the network
\* file before and after every merge and connectivity fix, hold at most one
\* entry per unordered node pair, so that an unordered pair of snap nodes
\* names one entry, one order of its nodes and one end for t
C29_OneEntryPerPair ==
    /\ OnePerPair(g_edges)
    /\ OnePerPair(network.edges)
    /\ pc \in {"integrate", "connect"} =>
           OnePerPair(network.edges \o new_edges \o virtual_edges)

C29_Witness ==
    /\ pc = "fixed"
    /\ first_run # <<>>
    /\ FixEdgeExists(network.edges)
    /\ Len(network.edges) > Len(first_run.network.edges)

----------------------------------------------------------------------------
(* Determinism *)

\* C23: the pipeline is deterministic: the same input gives the same nodes,
\* edges and virtual edges whatever the iteration order of the sets the
\* code iterates over; for the connector, the pair a floating component is
\* joined by is determined by the input, also when distances tie.
C23_ConnectorChoiceDetermined ==
    (pc = "connect" /\ floating_components # <<>>)
        => Cardinality(ClosestPairs(network.nodes, new_nodes, main_component,
                                    Head(floating_components))) <= 1

====
